---- MODULE Spec2Model ----
(***************************************************************************)
(* State-machine model of the war_gaming simulation core: task allocation  *)
(* and objective completion (sim/tasks/allocation), the per-frame tick of  *)
(* the Agents component, the task / agent stores, the delta-v maneuver     *)
(* module and the simulation clock.                                        *)
(*                                                                         *)
(* Numbers.  Positions are metres, velocities m/s, simulation time is in   *)
(* seconds for the task model.  All model inputs are chosen so that every  *)
(* square root the code takes is the root of a perfect square, hence the   *)
(* integer arithmetic below is exact.  The clock works in fixed point:     *)
(* time scale in hundredths, frame deltas in milliseconds, clock time in   *)
(* units of 1e-5 s (= 1 ms x 0.01).                                        *)
(***************************************************************************)
EXTENDS Integers, Sequences, FiniteSets, TLC

VARIABLES
    agents,       \* agent store: the agents array
    selectedAgentId, \* agent store: selectedAgentId
    objectives,   \* task store: the objectives array / the records handed to a call
    score,        \* task store: score
    timer,        \* task store: gameTime and timerRunning
    clock,        \* the SimClock instance's state
    rng,          \* util/seed: the current generator (its seed, numbers drawn so far)
    clockStore,   \* sim-clock store: paused, timeScale, simTime, seed, clock attached or not
    lastSimTime,  \* Agents component: lastSimTimeRef.current
    call,         \* the last operation performed, its arguments and what it returned
    objectives0,  \* history: the objective records as constructed
    emitted,      \* history: per objective, how often its id was returned as newly completed
    holdT0,       \* history: per objective, sim time of the call that recorded the running hold
    exitAt,       \* history: per objective, sim time of the last call that found the assigned agent outside
    budget0,      \* history: per agent, the dvRemaining it was created with
    spent,        \* history: per agent, the sum of |dv| over its successful burns
    advances,     \* history: number of clock calls that advanced simulation time
    runs,         \* the runs that are compared with each other, one record per run
    snapshot      \* Agents component: the agents array its frame callback was rendered with

vars == <<agents, selectedAgentId, objectives, score, timer, clock, rng, clockStore,
          lastSimTime, call,
          objectives0, emitted, holdT0, exitAt, budget0, spent, advances, runs,
          snapshot>>

storeVars == <<agents, selectedAgentId, score, timer>>
clockVars == <<clock, rng, clockStore, lastSimTime, advances, runs, snapshot>>
taskHist == <<objectives0, emitted, holdT0, exitAt>>
burnHist == <<budget0, spent>>

(***************************************************************************)
(* Bounds of the model.                                                    *)
(***************************************************************************)
MaxTime == 60     \* task model: simTime arguments range over 0..MaxTime (multiples of 5)
MaxAdvances == 2  \* clock model: at most this many calls advance simulation time
MaxDraws == 1     \* clock model: at most this many numbers are drawn from a generator
MaxBudget == 12   \* burn model: agents are created with a dvRemaining of at most this
MaxTickTime == 30 \* tick model: the clock runs up to this many seconds
MaxWall == 960    \* frame model: each run is driven for at most this many milliseconds
MaxSeparationPasses == 2 \* separation model: at most this many calls on the same array
MaxPasses == 2    \* pass model: at most this many passes over the objective records

(***************************************************************************)
(* null of `string | null` and of `number | null`.                         *)
(***************************************************************************)
NULL == "null"
NoTime == -1

AgentOrder == <<"a1", "a2">>
AgentIds == {AgentOrder[i] : i \in 1..Len(AgentOrder)}

\* sim times handed to updateObjectiveState: the instants of the relay scenario
Times == {t \in 0..MaxTime : t \in {0, 10, 25, 30, 40, 60}}
\* where agents can be: 1000 m from the relay (on its threshold) and 2000 m from it
\* (outside; at the inspect point and on the rim of the zone)
Positions == {<<1000, 0, 0>>, <<2000, 0, 0>>}
Slow == <<0, 0, 0>>
Fast == <<0, 20, 0>>

(***************************************************************************)
(* Helpers on sequences.                                                   *)
(***************************************************************************)
Range(s) == {s[i] : i \in 1..Len(s)}

RECURSIVE SqrtSearch(_, _, _)
SqrtSearch(n, lo, hi) ==
    IF lo >= hi THEN lo
    ELSE LET mid == (lo + hi + 1) \div 2
         IN  IF mid * mid <= n THEN SqrtSearch(n, mid, hi)
             ELSE SqrtSearch(n, lo, mid - 1)

\* roots of the perfect squares up to 3000 * 3000, computed once
SqrtTable == [n \in {k * k : k \in 0..3000} |-> SqrtSearch(n, 0, 3000)]

\* Math.sqrt on the perfect squares the model feeds it
Sqrt(n) ==
    IF n \in DOMAIN SqrtTable THEN SqrtTable[n]
    ELSE SqrtSearch(n, 0, IF n < 46340 THEN n ELSE 46340)

distance(pos1, pos2) ==
    LET dx == pos2[1] - pos1[1]
        dy == pos2[2] - pos1[2]
        dz == pos2[3] - pos1[3]
    IN  Sqrt(dx * dx + dy * dy + dz * dz)

HasAgent(ags, id) == \E i \in 1..Len(ags) : ags[i].id = id

AgentById(ags, id) == ags[CHOOSE i \in 1..Len(ags) : ags[i].id = id /\ \A j \in 1..(i - 1) : ags[j].id # id]

\* findNearestAgent: first agent at the strictly smallest distance, NULL if none
findNearestAgent(ags, position, excludeAgentIds) ==
    LET cand == {i \in 1..Len(ags) : ags[i].id \notin excludeAgentIds}
    IN  IF cand = {} THEN NULL
        ELSE LET best == CHOOSE i \in cand :
                            \A j \in cand :
                                /\ distance(ags[i].state.position, position)
                                     <= distance(ags[j].state.position, position)
                                /\ (j < i => distance(ags[j].state.position, position)
                                               > distance(ags[i].state.position, position))
             IN  ags[best].id

\* findAgentsInRadius (no exclusions are ever passed): the ids, in list order
findAgentsInRadius(ags, position, radius) ==
    LET In(a) == distance(a.state.position, position) <= radius
        sel == SelectSeq(ags, In)
    IN  [i \in 1..Len(sel) |-> sel[i].id]

(***************************************************************************)
(* sim/tasks/allocation: allocateTasks.  Each case takes the objective,    *)
(* the agent list and the ids claimed so far in this pass, and yields the  *)
(* objective as mutated and the ids claimed after it.                      *)
(***************************************************************************)
INSPECT_POINT == "inspect_point"
RELAY_NODE == "relay_node"
HOLD_FORMATION_ZONE == "hold_formation_zone"

AllocInspect(o, ags, assigned) ==
    LET nearest == findNearestAgent(ags, o.position, assigned)
    IN  [obj |-> o,
         assigned |-> IF nearest # NULL THEN assigned \cup {nearest} ELSE assigned]

\* mutant: a relay is handed to the nearest unclaimed agent in every pass
AllocRelayNearest(o, ags, assigned) ==
    LET nearest == findNearestAgent(ags, o.position, assigned)
    IN  IF nearest # NULL
        THEN [obj |-> [o EXCEPT !.assignedAgentId = nearest], assigned |-> assigned \cup {nearest}]
        ELSE [obj |-> [o EXCEPT !.assignedAgentId = NULL], assigned |-> assigned]

AllocRelay(o, ags, assigned) ==
    IF o.assignedAgentId # NULL /\ HasAgent(ags, o.assignedAgentId)
    THEN \* keep existing assignment
         [obj |-> o, assigned |-> assigned \cup {o.assignedAgentId}]
    ELSE \* agent no longer exists: clear assignment (the timer is left alone)
         LET cleared == [o EXCEPT !.assignedAgentId = NULL]
             nearest == findNearestAgent(ags, o.position, assigned)
         IN  IF nearest # NULL
             THEN [obj |-> [cleared EXCEPT !.assignedAgentId = nearest],
                   assigned |-> assigned \cup {nearest}]
             ELSE [obj |-> cleared, assigned |-> assigned]

RECURSIVE PushMissing(_, _)
PushMissing(ids, more) ==
    IF more = <<>> THEN ids
    ELSE PushMissing(IF Head(more) \in Range(ids) THEN ids ELSE Append(ids, Head(more)),
                     Tail(more))

RECURSIVE FillNearest(_, _, _, _, _)
FillNearest(ags, position, ids, assigned, needed) ==
    IF needed <= 0 THEN [ids |-> ids, assigned |-> assigned]
    ELSE LET nearest == findNearestAgent(ags, position, assigned)
         IN  IF nearest = NULL THEN [ids |-> ids, assigned |-> assigned]
             ELSE FillNearest(ags, position, Append(ids, nearest),
                              assigned \cup {nearest}, needed - 1)

\* mutant: the assignment list is not pruned of agents that no longer exist
AllocZoneNoPrune(o, ags, assigned) ==
    LET agentsInZone == findAgentsInRadius(ags, o.position, o.radius)
        withZone == PushMissing(o.assignedAgentIds, agentsInZone)
        assigned1 == assigned \cup Range(agentsInZone)
        neededAgents == o.requiredAgents - Len(withZone)
        filled == FillNearest(ags, o.position, withZone, assigned1, neededAgents)
    IN  [obj |-> [o EXCEPT !.assignedAgentIds = filled.ids], assigned |-> filled.assigned]

AllocZone(o, ags, assigned) ==
    LET Present(id) == HasAgent(ags, id)
        kept == SelectSeq(o.assignedAgentIds, Present)
        agentsInZone == findAgentsInRadius(ags, o.position, o.radius)
        withZone == PushMissing(kept, agentsInZone)
        assigned1 == assigned \cup Range(agentsInZone)
        neededAgents == o.requiredAgents - Len(withZone)
        filled == FillNearest(ags, o.position, withZone, assigned1, neededAgents)
    IN  [obj |-> [o EXCEPT !.assignedAgentIds = filled.ids], assigned |-> filled.assigned]

AllocObjective(o, ags, assigned) ==
    IF o.completed THEN [obj |-> o, assigned |-> assigned]
    ELSE CASE o.type = INSPECT_POINT -> AllocInspect(o, ags, assigned)
           [] o.type = RELAY_NODE -> AllocRelay(o, ags, assigned)
           [] o.type = HOLD_FORMATION_ZONE -> AllocZone(o, ags, assigned)

RECURSIVE AllocLoop(_, _, _, _)
AllocLoop(ags, objs, i, assigned) ==
    IF i > Len(objs) THEN objs
    ELSE LET r == AllocObjective(objs[i], ags, assigned)
         IN  AllocLoop(ags, [objs EXCEPT ![i] = r.obj], i + 1, r.assigned)

\* the objective records after allocateTasks(agents, objectives)
allocateTasks(ags, objs) == AllocLoop(ags, objs, 1, {})

(***************************************************************************)
(* sim/tasks/allocation: updateObjectiveState.  Each case yields the       *)
(* objective as mutated and whether its id was pushed on newlyCompleted.   *)
(***************************************************************************)
DefaultVThreshold == 10
Undefined == -2

speed(velocity) ==
    Sqrt(velocity[1] * velocity[1] + velocity[2] * velocity[2] + velocity[3] * velocity[3])

\* mutant: one agent may be near while another one is slow
UpdateInspectAnyAgent(o, ags, simTime) ==
    LET vThreshold == IF o.vThreshold = Undefined THEN DefaultVThreshold ELSE o.vThreshold
        hit == /\ \E i \in 1..Len(ags) :
                      distance(ags[i].state.position, o.position) <= o.threshold
               /\ \E i \in 1..Len(ags) : speed(ags[i].state.velocity) <= vThreshold
    IN  IF hit THEN [obj |-> [o EXCEPT !.completed = TRUE], emit |-> TRUE]
        ELSE [obj |-> o, emit |-> FALSE]

UpdateInspect(o, ags, simTime) ==
    LET vThreshold == IF o.vThreshold = Undefined THEN DefaultVThreshold ELSE o.vThreshold
        hit == \E i \in 1..Len(ags) :
                   /\ distance(ags[i].state.position, o.position) <= o.threshold
                   /\ speed(ags[i].state.velocity) <= vThreshold
    IN  IF hit THEN [obj |-> [o EXCEPT !.completed = TRUE], emit |-> TRUE]
        ELSE [obj |-> o, emit |-> FALSE]

\* mutant: the hold must be strictly longer than holdDuration
UpdateRelayStrict(o, ags, simTime) ==
    IF o.assignedAgentId = NULL THEN [obj |-> o, emit |-> FALSE]
    ELSE IF ~HasAgent(ags, o.assignedAgentId)
    THEN [obj |-> [o EXCEPT !.assignedAgentId = NULL, !.startTime = NoTime], emit |-> FALSE]
    ELSE IF distance(AgentById(ags, o.assignedAgentId).state.position, o.position) <= o.threshold
    THEN IF o.startTime = NoTime
         THEN [obj |-> [o EXCEPT !.startTime = simTime], emit |-> FALSE]
         ELSE IF simTime - o.startTime > o.holdDuration
              THEN [obj |-> [o EXCEPT !.completed = TRUE], emit |-> TRUE]
              ELSE [obj |-> o, emit |-> FALSE]
    ELSE [obj |-> [o EXCEPT !.startTime = NoTime], emit |-> FALSE]

\* mutant: leaving the threshold does not reset the timer
UpdateRelayNoReset(o, ags, simTime) ==
    IF o.assignedAgentId = NULL THEN [obj |-> o, emit |-> FALSE]
    ELSE IF ~HasAgent(ags, o.assignedAgentId)
    THEN [obj |-> [o EXCEPT !.assignedAgentId = NULL, !.startTime = NoTime], emit |-> FALSE]
    ELSE IF distance(AgentById(ags, o.assignedAgentId).state.position, o.position) <= o.threshold
    THEN IF o.startTime = NoTime
         THEN [obj |-> [o EXCEPT !.startTime = simTime], emit |-> FALSE]
         ELSE IF simTime - o.startTime >= o.holdDuration
              THEN [obj |-> [o EXCEPT !.completed = TRUE], emit |-> TRUE]
              ELSE [obj |-> o, emit |-> FALSE]
    ELSE [obj |-> o, emit |-> FALSE]

UpdateRelay(o, ags, simTime) ==
    IF o.assignedAgentId = NULL THEN [obj |-> o, emit |-> FALSE]
    ELSE IF ~HasAgent(ags, o.assignedAgentId)
    THEN \* agent no longer exists, reset
         [obj |-> [o EXCEPT !.assignedAgentId = NULL, !.startTime = NoTime], emit |-> FALSE]
    ELSE IF distance(AgentById(ags, o.assignedAgentId).state.position, o.position) <= o.threshold
    THEN IF o.startTime = NoTime
         THEN [obj |-> [o EXCEPT !.startTime = simTime], emit |-> FALSE]
         ELSE IF simTime - o.startTime >= o.holdDuration
              THEN [obj |-> [o EXCEPT !.completed = TRUE], emit |-> TRUE]
              ELSE [obj |-> o, emit |-> FALSE]
    ELSE \* agent moved outside threshold, reset timer
         [obj |-> [o EXCEPT !.startTime = NoTime], emit |-> FALSE]

\* mutant: only agents assigned to the zone count
UpdateZoneAssignedOnly(o, ags, simTime) ==
    LET inZone == findAgentsInRadius(ags, o.position, o.radius)
        IsAssigned(id) == id \in Range(o.assignedAgentIds)
    IN  IF Len(SelectSeq(inZone, IsAssigned)) >= o.requiredAgents
        THEN [obj |-> [o EXCEPT !.completed = TRUE], emit |-> TRUE]
        ELSE [obj |-> o, emit |-> FALSE]

UpdateZone(o, ags, simTime) ==
    IF Len(findAgentsInRadius(ags, o.position, o.radius)) >= o.requiredAgents
    THEN [obj |-> [o EXCEPT !.completed = TRUE], emit |-> TRUE]
    ELSE [obj |-> o, emit |-> FALSE]

\* mutant: a zone's completed flag follows the agents currently in the zone
UpdateObjectiveLive(o, ags, simTime) ==
    IF o.type = HOLD_FORMATION_ZONE
    THEN LET full == Len(findAgentsInRadius(ags, o.position, o.radius)) >= o.requiredAgents
         IN  [obj |-> [o EXCEPT !.completed = full], emit |-> full /\ ~o.completed]
    ELSE IF o.completed THEN [obj |-> o, emit |-> FALSE]
    ELSE IF o.type = INSPECT_POINT THEN UpdateInspect(o, ags, simTime)
    ELSE UpdateRelay(o, ags, simTime)

\* mutant: completed objectives are not skipped
UpdateObjectiveNoSkip(o, ags, simTime) ==
    CASE o.type = INSPECT_POINT -> UpdateInspect(o, ags, simTime)
      [] o.type = RELAY_NODE -> UpdateRelay(o, ags, simTime)
      [] o.type = HOLD_FORMATION_ZONE -> UpdateZone(o, ags, simTime)

\* one iteration of the loop over the objectives, the skip of completed ones included
UpdateObjective(o, ags, simTime) ==
    IF o.completed THEN [obj |-> o, emit |-> FALSE]
    ELSE CASE o.type = INSPECT_POINT -> UpdateInspect(o, ags, simTime)
           [] o.type = RELAY_NODE -> UpdateRelay(o, ags, simTime)
           [] o.type = HOLD_FORMATION_ZONE -> UpdateZone(o, ags, simTime)

\* updateObjectiveState(objectives, agents, simTime): the records as mutated and
\* the returned newlyCompleted array
updateObjectiveState(objs, ags, simTime) ==
    LET r == [i \in 1..Len(objs) |-> UpdateObjective(objs[i], ags, simTime)]
        Emits(i) == r[i].emit
        idx == SelectSeq([i \in 1..Len(objs) |-> i], Emits)
    IN  [objectives |-> [i \in 1..Len(objs) |-> r[i].obj],
         newlyCompleted |-> [k \in 1..Len(idx) |-> objs[idx[k]].id]]

(***************************************************************************)
(* sim/SimClock and util/seed.  Fixed point: the time scale is held in     *)
(* hundredths (0.1 is 10, 100 is 10000), frame deltas are milliseconds,    *)
(* simTime and stepDelta are in units of 1e-5 s, so that                   *)
(* frameDelta * timeScale is exact.                                        *)
(***************************************************************************)
MinTimeScale == 10
MaxTimeScale == 10000
DefaultTimeScale == 100
DefaultStepDelta == 100000

Seconds(t) == t * 100000

Max(a, b) == IF a >= b THEN a ELSE b
Min(a, b) == IF a <= b THEN a ELSE b

\* util/seed setSeed: a generator freshly seeded, nothing drawn from it yet
SeedRng(seed) == [seed |-> seed, draws |-> 0]

\* util/seed random(): the next number of the current generator's sequence
random(g) == [g EXCEPT !.draws = @ + 1]

\* new SimClock(initialState): the defaults, overridden by the fields given
NewSimClock(initialState) ==
    LET Field(f, default) == IF f \in DOMAIN initialState THEN initialState[f] ELSE default
    IN  [paused |-> Field("paused", FALSE),
         timeScale |-> Field("timeScale", DefaultTimeScale),
         simTime |-> Field("simTime", 0),
         seed |-> Field("seed", "default"),
         stepDelta |-> Field("stepDelta", DefaultStepDelta)]

pause(c) == [c EXCEPT !.paused = TRUE]

play(c) == [c EXCEPT !.paused = FALSE]

toggle(c) == [c EXCEPT !.paused = ~c.paused]

setTimeScale(c, scale) ==
    LET clamped == [c EXCEPT !.timeScale = Max(MinTimeScale, Min(MaxTimeScale, scale))]
    IN  IF clamped.timeScale = 0 THEN [clamped EXCEPT !.paused = TRUE] ELSE clamped

setSeed(c, seed) == [c EXCEPT !.seed = seed]

\* mutant: step() advances only a paused clock
stepOnlyWhenPaused(c) ==
    IF c.paused THEN [clock |-> [c EXCEPT !.simTime = @ + c.stepDelta], ret |-> c.stepDelta]
    ELSE [clock |-> c, ret |-> 0]

\* step(): the clock after the call and the value returned
step(c) == [clock |-> [c EXCEPT !.simTime = @ + c.stepDelta], ret |-> c.stepDelta]

\* mutant: update advances the clock whether or not it is paused
updateIgnoresPause(c, frameDelta) ==
    LET simDelta == frameDelta * c.timeScale
    IN  [clock |-> [c EXCEPT !.simTime = @ + simDelta], ret |-> simDelta]

\* update(frameDelta): the clock after the call and the value returned
update(c, frameDelta) ==
    IF c.paused \/ c.timeScale = 0 THEN [clock |-> c, ret |-> 0]
    ELSE LET simDelta == frameDelta * c.timeScale
         IN  [clock |-> [c EXCEPT !.simTime = @ + simDelta], ret |-> simDelta]

\* mutant: reset() also goes back to the default seed
resetToDefaultSeed(c) == [c EXCEPT !.simTime = 0, !.seed = "default"]

\* reset(): the clock after the call (the action reseeds the generator)
reset(c) == [c EXCEPT !.simTime = 0]

\* sim-clock store as created: no clock instance attached
NewClockStore ==
    [paused |-> FALSE, timeScale |-> DefaultTimeScale, simTime |-> 0, seed |-> "default",
     attached |-> FALSE]

\* task store: gameTime (1e-5 s) and timerRunning, as created
NoTimer == [gameTime |-> 0, timerRunning |-> FALSE]

\* the parts of the program a specification leaves as created
NoTasks ==
    /\ objectives = <<>> /\ score = 0 /\ timer = NoTimer
    /\ objectives0 = <<>> /\ emitted = <<>> /\ holdT0 = <<>> /\ exitAt = <<>>

NoAgents == agents = <<>> /\ selectedAgentId = NULL /\ budget0 = <<>> /\ spent = <<>>

NoClock ==
    /\ clock = NewSimClock(<<>>) /\ rng = SeedRng(clock.seed)
    /\ clockStore = NewClockStore /\ lastSimTime = NoTime /\ advances = 0
    /\ runs = <<>> /\ snapshot = <<>>

(***************************************************************************)
(* Inputs of the task model: agent lists and the scenario's objectives.    *)
(***************************************************************************)
DefaultDvRemaining == 1000

MkAgent(id, position, velocity) ==
    [id |-> id, state |-> [position |-> position, velocity |-> velocity],
     dvRemaining |-> DefaultDvRemaining, selected |-> FALSE]

Absent == <<>>

\* the agent list in which agent id is at f[id] = <<position, velocity>>, or missing
ListOf(f) ==
    LET IsPresent(id) == f[id] # Absent
        present == SelectSeq(AgentOrder, IsPresent)
    IN  [i \in 1..Len(present) |-> MkAgent(present[i], f[present[i]][1], f[present[i]][2])]

\* where an agent can be: at rest at any position, or passing the inspect point fast
AgentStates == Positions \X {Slow}

AgentLists == {ListOf(f) : f \in [AgentIds -> AgentStates \cup {Absent}]}

\* the objectives of the scenario: an InspectPoint, a RelayNode (threshold 1000 m,
\* holdDuration 30 s) and a HoldFormationZone for two agents
ScenarioObjectives(done) ==
    << [id |-> "inspect", type |-> INSPECT_POINT, position |-> <<2000, 0, 0>>, points |-> 10,
        completed |-> done[1], threshold |-> 500, vThreshold |-> Undefined],
       [id |-> "relay", type |-> RELAY_NODE, position |-> <<0, 0, 0>>, points |-> 20,
        completed |-> done[2], holdDuration |-> 30, threshold |-> 1000,
        assignedAgentId |-> NULL, startTime |-> NoTime],
       [id |-> "zone", type |-> HOLD_FORMATION_ZONE, position |-> <<3000, 0, 0>>, points |-> 30,
        completed |-> done[3], radius |-> 1000, requiredAgents |-> 2,
        assignedAgentIds |-> <<>>] >>

ObjIdx == 1..3

IsRelay(o) == o.type = RELAY_NODE

\* the relay's assigned agent is in the list and within / outside the threshold
AssignedPresent(o, ags) == o.assignedAgentId # NULL /\ HasAgent(ags, o.assignedAgentId)
AssignedWithin(o, ags) ==
    /\ AssignedPresent(o, ags)
    /\ distance(AgentById(ags, o.assignedAgentId).state.position, o.position) <= o.threshold
AssignedOutside(o, ags) ==
    /\ AssignedPresent(o, ags)
    /\ distance(AgentById(ags, o.assignedAgentId).state.position, o.position) > o.threshold

\* the pending relays whose assigned agent is not in the list handed to the pass
LostIn(objs, ags) ==
    {i \in 1..Len(objs) : /\ IsRelay(objs[i]) /\ ~objs[i].completed
                          /\ objs[i].assignedAgentId # NULL
                          /\ ~HasAgent(ags, objs[i].assignedAgentId)}

Count(seq, x) == Cardinality({k \in 1..Len(seq) : seq[k] = x})

(***************************************************************************)
(* Specification TaskSpec: any sequence of allocateTasks and               *)
(* updateObjectiveState calls on the same objective records, each with an  *)
(* agent list of its own; simulation time does not run backwards.          *)
(***************************************************************************)
TaskInit ==
    /\ NoAgents
    /\ timer = NoTimer
    /\ NoClock
    /\ objectives \in {ScenarioObjectives([i \in ObjIdx |-> i \in done]) : done \in {{}, {2}}}
    /\ objectives0 = objectives
    /\ score = 0
    /\ call = [op |-> "init", simTime |-> 0, newlyCompleted |-> <<>>, lost |-> {},
               outside |-> {}]
    /\ emitted = [i \in ObjIdx |-> 0]
    /\ holdT0 = [i \in ObjIdx |-> NoTime]
    /\ exitAt = [i \in ObjIdx |-> NoTime]

\* The history of a relay's hold (holdT0, exitAt) is kept while the relay is pending
\* and in the state right after the call that completes it; any later call drops it.
AllocateTasksCall ==
    \E ags \in AgentLists :
        /\ objectives' = allocateTasks(ags, objectives)
        /\ call' = [op |-> "allocateTasks", simTime |-> call.simTime, newlyCompleted |-> <<>>,
                    lost |-> LostIn(objectives, ags), outside |-> {}]
        /\ holdT0' = [i \in ObjIdx |-> IF objectives[i].completed THEN NoTime ELSE holdT0[i]]
        /\ exitAt' = [i \in ObjIdx |-> IF objectives[i].completed THEN NoTime ELSE exitAt[i]]
        /\ UNCHANGED <<storeVars, clockVars, burnHist, objectives0, emitted>>

UpdateObjectiveStateCall ==
    \E ags \in AgentLists, simTime \in Times :
        /\ simTime >= call.simTime
        /\ LET r == updateObjectiveState(objectives, ags, simTime)
               Pending(i) == IsRelay(objectives[i]) /\ ~objectives[i].completed
           IN  /\ objectives' = r.objectives
               /\ call' = [op |-> "updateObjectiveState", simTime |-> simTime,
                           newlyCompleted |-> r.newlyCompleted,
                           lost |-> LostIn(objectives, ags),
                           outside |-> {i \in ObjIdx : Pending(i)
                                           /\ AssignedOutside(objectives[i], ags)}]
               /\ emitted' = [i \in ObjIdx |->
                                 emitted[i] + Count(r.newlyCompleted, objectives[i].id)]
               /\ holdT0' = [i \in ObjIdx |->
                                IF ~Pending(i) \/ ~AssignedWithin(objectives[i], ags) THEN NoTime
                                ELSE IF objectives[i].startTime = NoTime THEN simTime
                                ELSE holdT0[i]]
               /\ exitAt' = [i \in ObjIdx |->
                                IF ~Pending(i) THEN NoTime
                                ELSE IF AssignedOutside(objectives[i], ags) THEN simTime
                                ELSE exitAt[i]]
        /\ UNCHANGED <<storeVars, clockVars, burnHist, objectives0>>

TaskNext == AllocateTasksCall \/ UpdateObjectiveStateCall

TaskSpec == TaskInit /\ [][TaskNext]_vars

(***************************************************************************)
(* Claims about allocateTasks / updateObjectiveState (TaskSpec).           *)
(***************************************************************************)
Relays == {i \in ObjIdx : IsRelay(objectives[i])}

\* C1: across any sequence of allocateTasks and updateObjectiveState calls on the
\* same records, an objective that is completed stays completed: the flag only
\* ever goes from false to true.
C1_CompletedMonotonic ==
    [][\A i \in ObjIdx : objectives[i].completed => objectives'[i].completed]_vars

\* C1 witness: an objective completed during the run, and a later update call has
\* processed the records without completing anything.
C1_Witness ==
    /\ \E i \in ObjIdx : objectives[i].completed /\ ~objectives0[i].completed
    /\ call.op = "updateObjectiveState" /\ call.newlyCompleted = <<>>

\* C2: an objective's id has been returned as newly completed exactly once if its
\* flag went from false to true during the run, and never otherwise; as this holds
\* after every call, the one call that returns the id is the call that sets the flag.
C2_EmittedExactlyOnce ==
    \A i \in ObjIdx :
        emitted[i] = IF objectives[i].completed /\ ~objectives0[i].completed THEN 1 ELSE 0

\* C2 witness: the relay's id was returned once, and the update call made after
\* that did not return it again.
C2_Witness ==
    /\ \E i \in Relays : emitted[i] = 1 /\ objectives[i].id \notin Range(call.newlyCompleted)
    /\ call.op = "updateObjectiveState"

\* C4: while the assigned agent has been within threshold at every update call
\* since the call that recorded the hold start t0 (holdT0), the relay is completed
\* exactly when the latest update call's simTime - t0 has reached holdDuration:
\* it completes at the first such call and at none before.
C4_RelayCompletesAfterHold ==
    \A i \in Relays :
        holdT0[i] # NoTime =>
            (objectives[i].completed <=> call.simTime - holdT0[i] >= objectives[i].holdDuration)

\* C4 witness: holdDuration 30 s, entry at t = 10 s, completed by the call at t = 40 s.
C4_Witness ==
    \E i \in Relays :
        /\ objectives[i].holdDuration = 30 /\ holdT0[i] = 10
        /\ objectives[i].completed /\ call.simTime = 40

\* C5: an update call that finds the assigned agent outside the threshold leaves
\* the hold-start time unset; a relay that completes after such an exit does so no
\* earlier than holdDuration after the exit, and, when the re-entry was recorded at
\* t0, exactly when simTime - t0 reaches holdDuration.
C5_ExitResetsHold ==
    \A i \in Relays :
        /\ i \in call.outside => objectives[i].startTime = NoTime
        /\ (exitAt[i] # NoTime /\ objectives[i].completed)
              => call.simTime - exitAt[i] >= objectives[i].holdDuration
        /\ (exitAt[i] # NoTime /\ holdT0[i] # NoTime)
              => /\ holdT0[i] >= exitAt[i]
                 /\ objectives[i].completed
                      <=> call.simTime - holdT0[i] >= objectives[i].holdDuration

\* C5 witness: holdDuration 30 s, exit seen at t = 25 s, re-entry at t = 30 s,
\* completed by the call at t = 60 s.
C5_Witness ==
    \E i \in Relays :
        /\ objectives[i].holdDuration = 30 /\ exitAt[i] = 25 /\ holdT0[i] = 30
        /\ objectives[i].completed /\ call.simTime = 60

\* C6 (as claimed): after a pass (allocateTasks or updateObjectiveState) that found
\* a pending relay's assigned agent missing from the agent list, the relay's
\* hold-start time is unset and the relay is no longer assigned to the lost agent.
C6_LostAgentResetsTimer ==
    \A i \in call.lost :
        /\ objectives[i].startTime = NoTime
        /\ call.op = "updateObjectiveState" => objectives[i].assignedAgentId = NULL

(***************************************************************************)
(* Specification PassSpec: allocateTasks and updateObjectiveState as       *)
(* functions of their arguments.  The objective records start in any of    *)
(* the shapes a scenario or an earlier pass can leave them in (a relay     *)
(* unassigned, assigned to a2 or to the vanished agent a3; a zone list     *)
(* empty or naming a3 and a1; one or two agents required; vThreshold given *)
(* or not), and up to MaxPasses passes run with agent lists of their own.  *)
(***************************************************************************)
PassObjectives ==
    {[ScenarioObjectives([i \in ObjIdx |-> i \in done]) EXCEPT
         ![1].vThreshold = vThreshold,
         ![2].assignedAgentId = relayAgent,
         ![3].assignedAgentIds = zoneAgents,
         ![3].requiredAgents = requiredAgents] :
       done \in {{}, {1}}, vThreshold \in {Undefined, 20},
       relayAgent \in {NULL, "a2", "a3"}, zoneAgents \in {<<>>, <<"a3", "a1">>},
       requiredAgents \in {1, 2}}

\* a1: absent, at rest 1000 m or 2000 m out, or passing 1500 m and 2000 m at 20 m/s;
\* a2: absent, or at rest 1000 m, 1500 m or 2000 m out
PassAgentLists ==
    {ListOf(f) : f \in {g \in [AgentIds -> (({<<1000, 0, 0>>, <<1500, 0, 0>>, <<2000, 0, 0>>}
                                               \X {Slow, Fast}) \cup {Absent})] :
                          /\ g["a1"] # <<(<<1500, 0, 0>>), Slow>>
                          /\ g["a1"] # <<(<<1000, 0, 0>>), Fast>>
                          /\ g["a2"] = Absent \/ g["a2"][2] = Slow}}

IsInspect(o) == o.type = INSPECT_POINT
IsZone(o) == o.type = HOLD_FORMATION_ZONE

PassInit ==
    /\ NoAgents
    /\ timer = NoTimer
    /\ NoClock
    /\ objectives \in PassObjectives
    /\ objectives0 = objectives
    /\ score = 0
    /\ call = [op |-> "init", pass |-> 0]
    /\ emitted = <<>> /\ holdT0 = <<>> /\ exitAt = <<>>

PassIdle == UNCHANGED <<storeVars, clockVars, burnHist, taskHist>>

AllocatePass ==
    \E ags \in PassAgentLists :
        /\ call.pass < MaxPasses
        /\ objectives' = allocateTasks(ags, objectives)
        /\ call' = [op |-> "allocateTasks", pass |-> call.pass + 1, agents |-> ags,
                    before |-> objectives]
        /\ PassIdle

UpdatePass ==
    \E ags \in PassAgentLists :
        /\ call.pass < MaxPasses
        /\ \E r \in {updateObjectiveState(objectives, ags, 10 * (call.pass + 1))} :
              /\ objectives' = r.objectives
              /\ call' = [op |-> "updateObjectiveState", pass |-> call.pass + 1,
                          agents |-> ags, before |-> objectives,
                          newlyCompleted |-> r.newlyCompleted]
        /\ PassIdle

PassNext == AllocatePass \/ UpdatePass

PassSpec == PassInit /\ [][PassNext]_vars

(***************************************************************************)
(* Claims about single passes (PassSpec).                                  *)
(***************************************************************************)
\* the ids claimed in an allocateTasks pass before objective i is processed: in
\* the scenario only the InspectPoint precedes the relay, and a pending
\* InspectPoint claims the agent nearest to it
ClaimedBefore(i) ==
    {findNearestAgent(call.agents, call.before[j].position, {}) :
        j \in {k \in 1..(i - 1) : IsInspect(call.before[k]) /\ ~call.before[k].completed
                                  /\ Len(call.agents) > 0}}

\* id is an agent of the list outside excl, and no agent outside excl is nearer to position
NearestUnclaimed(id, ags, position, excl) ==
    /\ id \notin excl
    /\ HasAgent(ags, id)
    /\ \A k \in 1..Len(ags) :
          ags[k].id \notin excl =>
              distance(AgentById(ags, id).state.position, position)
                <= distance(ags[k].state.position, position)

\* C16: allocateTasks leaves a pending relay's assignedAgentId as it was whenever
\* the assigned agent is in the agent list; when that agent is gone (or none was
\* assigned) the relay gets the nearest agent not yet claimed in this pass, and
\* stays unassigned if every agent is claimed.
C16_RelaySticky ==
    call.op = "allocateTasks" =>
        \A i \in ObjIdx :
            (IsRelay(call.before[i]) /\ ~call.before[i].completed) =>
                IF AssignedPresent(call.before[i], call.agents)
                THEN objectives[i].assignedAgentId = call.before[i].assignedAgentId
                ELSE IF \A k \in 1..Len(call.agents) : call.agents[k].id \in ClaimedBefore(i)
                THEN objectives[i].assignedAgentId = NULL
                ELSE NearestUnclaimed(objectives[i].assignedAgentId, call.agents,
                                      objectives[i].position, ClaimedBefore(i))

\* C16 witness: a relay assigned to a2 went through a pass in which a1 was nearer
\* to it than a2 and kept a2; before that, it had lost a3 and was given a2.
C16_Witness ==
    /\ call.op = "allocateTasks" /\ call.pass = 2
    /\ objectives0[2].assignedAgentId = "a3"
    /\ call.before[2].assignedAgentId = "a2" /\ objectives[2].assignedAgentId = "a2"
    /\ ~objectives[2].completed
    /\ HasAgent(call.agents, "a1") /\ HasAgent(call.agents, "a2")
    /\ distance(AgentById(call.agents, "a1").state.position, objectives[2].position)
         < distance(AgentById(call.agents, "a2").state.position, objectives[2].position)

\* C17: after an allocateTasks pass every pending relay is unassigned or assigned
\* to an agent of the list, and every id in a pending zone's assignedAgentIds is
\* the id of an agent of the list.
C17_AssignmentsPresent ==
    call.op = "allocateTasks" =>
        \A i \in ObjIdx :
            ~objectives[i].completed =>
                /\ IsRelay(objectives[i]) =>
                      \/ objectives[i].assignedAgentId = NULL
                      \/ HasAgent(call.agents, objectives[i].assignedAgentId)
                /\ IsZone(objectives[i]) =>
                      \A id \in Range(objectives[i].assignedAgentIds) : HasAgent(call.agents, id)

\* C17 witness: the relay and the zone named the vanished agent a3 before the pass;
\* after it the relay is unassigned (no agent left) or reassigned, and the zone's
\* list is without a3.
C17_Witness ==
    /\ call.op = "allocateTasks"
    /\ call.before[2].assignedAgentId = "a3" /\ "a3" \in Range(call.before[3].assignedAgentIds)
    /\ ~objectives[2].completed /\ ~objectives[3].completed
    /\ objectives[2].assignedAgentId # "a3" /\ "a3" \notin Range(objectives[3].assignedAgentIds)
    /\ Len(objectives[3].assignedAgentIds) = 2

C19_ZoneCompletesOnCount ==
    call.op = "updateObjectiveState" =>
        \A i \in ObjIdx :
            (IsZone(call.before[i]) /\ ~call.before[i].completed) =>
                (objectives[i].completed <=>
                    Cardinality({k \in 1..Len(call.agents) :
                                    distance(call.agents[k].state.position, objectives[i].position)
                                      <= objectives[i].radius})
                      >= objectives[i].requiredAgents)

\* C19 witness: a zone for two agents whose list names a3 and a1 is completed by a
\* call in which a1 and the unassigned a2 are both on its rim.
C19_Witness ==
    /\ call.op = "updateObjectiveState"
    /\ objectives[3].completed /\ ~call.before[3].completed
    /\ objectives[3].requiredAgents = 2
    /\ call.before[3].assignedAgentIds = <<"a3", "a1">>
    /\ Len(call.agents) = 2

(***************************************************************************)
(* Specification ClockSpec: a SimClock constructed from any initial state, *)
(* then any sequence of its methods; random() draws from the generator the *)
(* clock seeds.                                                            *)
(***************************************************************************)

\* the initialState arguments of the constructor (time scales 0, 150, 2.0, 0.5;
\* simTime 10 s; stepDelta 2.0 s)
InitialStates ==
    << <<>>,
       [timeScale |-> 0],
       [timeScale |-> 15000],
       [paused |-> TRUE, simTime |-> 1000000],
       [paused |-> FALSE, timeScale |-> 200, simTime |-> 1000000],
       [paused |-> TRUE, simTime |-> 1000000, stepDelta |-> 200000],
       [seed |-> "seed1", timeScale |-> 50] >>

\* arguments of setTimeScale: 0, 0.05, 5.0, 150
Scales == {0, 5, 500, 15000}
\* arguments of update: 16 ms and 32 ms frames
FrameDeltas == {16, 32}
Seeds == {"default", "seed1"}

ClockInit ==
    /\ \E i \in 1..Len(InitialStates) : clock = NewSimClock(InitialStates[i])
    /\ rng = SeedRng(clock.seed)
    /\ clockStore = NewClockStore
    /\ lastSimTime = NoTime
    /\ advances = 0
    /\ runs = <<>> /\ snapshot = <<>>
    /\ call = [op |-> "new"]
    /\ NoTasks
    /\ NoAgents

ClockIdle ==
    UNCHANGED <<storeVars, objectives, taskHist, burnHist, clockStore, lastSimTime, runs,
                snapshot>>

SetTimeScale ==
    \E scale \in Scales :
        /\ clock' = setTimeScale(clock, scale)
        /\ call' = [op |-> "setTimeScale", scale |-> scale]
        /\ UNCHANGED <<rng, advances>>
        /\ ClockIdle

Pause ==
    /\ clock' = pause(clock)
    /\ call' = [op |-> "pause"]
    /\ UNCHANGED <<rng, advances>>
    /\ ClockIdle

Play ==
    /\ clock' = play(clock)
    /\ call' = [op |-> "play"]
    /\ UNCHANGED <<rng, advances>>
    /\ ClockIdle

Toggle ==
    /\ clock' = toggle(clock)
    /\ call' = [op |-> "toggle"]
    /\ UNCHANGED <<rng, advances>>
    /\ ClockIdle

Step ==
    /\ advances < MaxAdvances
    /\ clock' = step(clock).clock
    /\ call' = [op |-> "step", ret |-> step(clock).ret, before |-> clock]
    /\ advances' = advances + 1
    /\ UNCHANGED rng
    /\ ClockIdle

Update ==
    \E frameDelta \in FrameDeltas :
        LET r == update(clock, frameDelta)
        IN  /\ r.ret # 0 => advances < MaxAdvances
            /\ clock' = r.clock
            /\ call' = [op |-> "update", frameDelta |-> frameDelta, ret |-> r.ret,
                        before |-> clock]
            /\ advances' = IF r.ret # 0 THEN advances + 1 ELSE advances
            /\ UNCHANGED rng
            /\ ClockIdle

Reset ==
    /\ clock' = reset(clock)
    /\ rng' = SeedRng(clock.seed)
    /\ call' = [op |-> "reset", before |-> clock, rngBefore |-> rng]
    /\ UNCHANGED advances
    /\ ClockIdle

SetSeed ==
    \E seed \in Seeds :
        /\ clock' = setSeed(clock, seed)
        /\ rng' = SeedRng(seed)
        /\ call' = [op |-> "setSeed", seed |-> seed]
        /\ UNCHANGED advances
        /\ ClockIdle

Random ==
    /\ rng.draws < MaxDraws
    /\ rng' = random(rng)
    /\ call' = [op |-> "random"]
    /\ UNCHANGED <<clock, advances>>
    /\ ClockIdle

ClockNext ==
    \/ SetTimeScale \/ Pause \/ Play \/ Toggle \/ Step \/ Update \/ Reset \/ SetSeed
    \/ Random

ClockSpec == ClockInit /\ [][ClockNext]_vars

(***************************************************************************)
(* Claims about the simulation clock (ClockSpec).                          *)
(***************************************************************************)
\* C9: an update(frameDelta) on a paused clock returns 0 and leaves simulation
\* time unchanged; on a running clock it advances simulation time by exactly
\* frameDelta * timeScale and returns that amount.
C9_UpdatePausedOrScaled ==
    call.op = "update" =>
        IF call.before.paused
        THEN call.ret = 0 /\ clock.simTime = call.before.simTime
        ELSE /\ call.ret = call.frameDelta * call.before.timeScale
             /\ clock.simTime = call.before.simTime + call.ret

\* C9 witness: a clock whose time has advanced is paused, and update returned 0.
C9_Witness ==
    /\ call.op = "update" /\ call.before.paused /\ call.ret = 0
    /\ clock.simTime > 0 /\ advances > 0

\* C10 (as claimed): in every reachable clock state the time scale lies in
\* [0.1, 100].
C10_TimeScaleInRange ==
    clock.timeScale >= MinTimeScale /\ clock.timeScale <= MaxTimeScale

\* C11 (as claimed): after setTimeScale(0) the clock is paused.
C11_ZeroScalePauses ==
    (call.op = "setTimeScale" /\ call.scale = 0) => clock.paused

\* C12: step() advances simulation time by exactly stepDelta and returns it,
\* whether the clock is paused or running, and changes neither the paused flag
\* nor the time scale.
C12_StepAdvancesByStepDelta ==
    call.op = "step" =>
        /\ clock.simTime = call.before.simTime + call.before.stepDelta
        /\ call.ret = call.before.stepDelta
        /\ clock.paused = call.before.paused
        /\ clock.timeScale = call.before.timeScale
        /\ clock.stepDelta = call.before.stepDelta

\* C12 witness: a running clock whose time is 10 s has been stepped by its
\* step of 1 s and is still running.
C12_Witness ==
    /\ call.op = "step" /\ ~call.before.paused /\ call.before.simTime = Seconds(10)
    /\ clock.simTime = Seconds(11) /\ ~clock.paused

\* C13: reset() sets simulation time to 0 and reseeds the generator with the
\* current seed, so that the next draw is the first of that seed's sequence;
\* the seed, the paused flag and the time scale stay as they were.
C13_ResetRestartsSequence ==
    call.op = "reset" =>
        /\ clock.simTime = 0
        /\ rng = SeedRng(call.before.seed)
        /\ clock.seed = call.before.seed
        /\ clock.paused = call.before.paused
        /\ clock.timeScale = call.before.timeScale

\* C13 witness: a clock seeded with "seed1", with time on it and a number drawn,
\* has been reset.
C13_Witness ==
    /\ call.op = "reset" /\ call.before.seed = "seed1" /\ call.before.simTime > 0
    /\ call.rngBefore.draws > 0 /\ rng.draws = 0 /\ clock.simTime = 0

(***************************************************************************)
(* SimClock.update in IEEE-754 double arithmetic.  A time is held as the   *)
(* integer number of units of 2^-58 s it amounts to (the unit in the last  *)
(* place of the double 0.016), written in three limbs <<high, middle,      *)
(* low>> of 20 bits each; every double between 2^-6 and 4 is such an       *)
(* integer.  An addition is exact and then rounded to 53 significant bits, *)
(* ties to even, as the hardware does.                                     *)
(***************************************************************************)
Limb == 1048576
DoubleBits == 53

Double(n) == <<0, n \div Limb, n % Limb>>

\* carries propagated from the low limb upwards
Carry(x) ==
    LET m == x[2] + x[3] \div Limb
    IN  <<x[1] + m \div Limb, m % Limb, x[3] % Limb>>

BitLen(n) == IF n = 0 THEN 0 ELSE CHOOSE k \in 1..30 : 2^(k - 1) <= n /\ n < 2^k

Bits(x) ==
    IF x[1] > 0 THEN 40 + BitLen(x[1])
    ELSE IF x[2] > 0 THEN 20 + BitLen(x[2])
    ELSE BitLen(x[3])

\* round to nearest, ties to even, at DoubleBits significant bits
RoundDouble(x) ==
    LET s == Bits(x) - DoubleBits
    IN  IF s <= 0 THEN x
        ELSE LET p == 2^s
                 r == x[3] % p
                 q == x[3] \div p
                 up == 2 * r > p \/ (2 * r = p /\ q % 2 = 1)
             IN  Carry(<<x[1], x[2], x[3] - r + (IF up THEN p ELSE 0)>>)

\* a + b of two doubles
DoubleAdd(a, b) == RoundDouble(Carry(<<a[1] + b[1], a[2] + b[2], a[3] + b[3]>>))

\* a * k of a double and a small whole-numbered double
DoubleTimes(a, k) == RoundDouble(Carry(<<a[1] * k, a[2] * k, a[3] * k>>))

DoubleLess(a, b) ==
    \/ a[1] < b[1]
    \/ a[1] = b[1] /\ a[2] < b[2]
    \/ a[1] = b[1] /\ a[2] = b[2] /\ a[3] < b[3]

\* |a - b|, exact
DoubleGap(a, b) ==
    LET hi == IF DoubleLess(a, b) THEN b ELSE a
        lo == IF DoubleLess(a, b) THEN a ELSE b
        l == hi[3] - lo[3]
        m == hi[2] - lo[2] - (IF l < 0 THEN 1 ELSE 0)
        h == hi[1] - lo[1] - (IF m < 0 THEN 1 ELSE 0)
    IN  <<h, (m + Limb) % Limb, (l + Limb) % Limb>>

\* the doubles written 0.016 and 0.032, by the frame length in milliseconds
FrameSeconds(ms) ==
    IF ms = 16 THEN <<4194, 318767, 109052>> ELSE <<8388, 637534, 218104>>

\* mutant: every frame advances the clock by a 16 ms frame's worth of time
updateDoublePerFrame(c, frameDelta) ==
    IF c.paused \/ c.timeScale = 0 THEN [clock |-> c, ret |-> Double(0)]
    ELSE LET simDelta == DoubleTimes(FrameSeconds(16), c.timeScale)
         IN  [clock |-> [c EXCEPT !.simTime = DoubleAdd(@, simDelta)], ret |-> simDelta]

\* update(frameDelta) on a clock whose simTime is a double and whose time scale
\* is a whole number
updateDouble(c, frameDelta) ==
    IF c.paused \/ c.timeScale = 0 THEN [clock |-> c, ret |-> Double(0)]
    ELSE LET simDelta == DoubleTimes(FrameSeconds(frameDelta), c.timeScale)
         IN  [clock |-> [c EXCEPT !.simTime = DoubleAdd(@, simDelta)], ret |-> simDelta]

(***************************************************************************)
(* Specification FrameSpec: two clocks constructed alike (time scale 1.0   *)
(* or 2.0, running, at time 0), each driven by update calls for up to      *)
(* MaxWall milliseconds of frame time: the first with frames of 16 ms and  *)
(* 32 ms in any order, the second at a steady 32 ms per frame.             *)
(***************************************************************************)
RunIds == {1, 2}
WholeScales == {1, 2}
FrameDeltasOf(r) == IF r = 1 THEN FrameDeltas ELSE {32}

FrameInit ==
    /\ NoAgents
    /\ NoTasks
    /\ clock = NewSimClock(<<>>) /\ rng = SeedRng(clock.seed)
    /\ clockStore = NewClockStore /\ lastSimTime = NoTime /\ advances = 0
    /\ snapshot = <<>>
    /\ \E scale \in WholeScales :
          runs = [r \in RunIds |->
                    [clock |-> NewSimClock([seed |-> "seed1", simTime |-> Double(0),
                                            timeScale |-> scale]),
                     wall |-> 0, frames |-> [ms \in FrameDeltas |-> 0]]]
    /\ call = [op |-> "new"]

UpdateRun ==
    \E r \in RunIds :
    \E frameDelta \in FrameDeltasOf(r) :
        /\ runs[r].wall + frameDelta <= MaxWall
        /\ runs' = [runs EXCEPT ![r].clock = updateDouble(@, frameDelta).clock,
                                ![r].wall = @ + frameDelta,
                                ![r].frames[frameDelta] = @ + 1]
        /\ call' = [op |-> "update", run |-> r, frameDelta |-> frameDelta]
        /\ UNCHANGED <<storeVars, objectives, taskHist, burnHist, clock, rng, clockStore,
                       lastSimTime, advances, snapshot>>

FrameNext == UpdateRun

FrameSpec == FrameInit /\ [][FrameNext]_vars

\* time scale x total frame time of run r, exact (the double 0.032 is twice the
\* double 0.016)
ExactTime(r) ==
    LET k == runs[r].clock.timeScale * (runs[r].frames[16] + 2 * runs[r].frames[32])
        d == FrameSeconds(16)
    IN  Carry(<<d[1] * k, d[2] * k, d[3] * k>>)

\* the spacing of the doubles at t, no more than 2^-52 x t
Ulp(t) == IF Bits(t) >= DoubleBits THEN 2^(Bits(t) - DoubleBits) ELSE 0

FrameCount(r) == runs[r].frames[16] + runs[r].frames[32]

\* a and b differ by no more than n spacings of the doubles at t
WithinRounding(a, b, n, t) == ~DoubleLess(Double(n * Ulp(t)), DoubleGap(a, b))

\* C14 (as claimed): two runs whose frame deltas sum to the same wall time are at
\* the same simulation time.
C14_SameFinalTime ==
    runs[1].wall = runs[2].wall => runs[1].clock.simTime = runs[2].clock.simTime

\* C14 (amended): a run of n frames is at time scale x total frame time up to
\* the rounding of its n additions (n x 2^-52 x that time), and so two runs
\* whose frame deltas sum to the same wall time are at simulation times that
\* differ by no more than the rounding of both.
C14_FinalTimeWithinRounding ==
    /\ \A r \in RunIds :
          WithinRounding(runs[r].clock.simTime, ExactTime(r), FrameCount(r), ExactTime(r))
    /\ runs[1].wall = runs[2].wall =>
          WithinRounding(runs[1].clock.simTime, runs[2].clock.simTime,
                         FrameCount(1) + FrameCount(2), ExactTime(1))

\* C14 witness: 60 frames of 16 ms in one run and 30 frames of 32 ms in the other,
\* at time scale 1.0, and the two clocks are not at the same double.
C14_Witness ==
    /\ runs[1].frames[16] = 60 /\ runs[1].frames[32] = 0
    /\ runs[2].frames[32] = 30 /\ runs[2].frames[16] = 0
    /\ runs[1].clock.timeScale = 1
    /\ runs[1].clock.simTime # runs[2].clock.simTime

(***************************************************************************)
(* sim/swarm/localFrame, sim/maneuvers/rtnToEci, sim/maneuvers/deltaV and  *)
(* the agent store's applyDeltaVToAgent.  The burn model keeps agents on   *)
(* the x axis with velocities in the xy plane, where every unit vector of  *)
(* the local frame has integer components and every norm is an integer.    *)
(* A call that throws yields threw = TRUE.                                 *)
(***************************************************************************)
Norm(v) == Sqrt(v[1] * v[1] + v[2] * v[2] + v[3] * v[3])

Cross(a, b) ==
    <<a[2] * b[3] - a[3] * b[2], a[3] * b[1] - a[1] * b[3], a[1] * b[2] - a[2] * b[1]>>

\* v / n, componentwise
Over(v, n) == <<v[1] \div n, v[2] \div n, v[3] \div n>>

computeLocalFrame(referenceState) ==
    LET r == Norm(referenceState.position)
        v == Norm(referenceState.velocity)
        hvec == Cross(referenceState.position, referenceState.velocity)
        h == Norm(hvec)
    IN  IF r = 0 THEN [threw |-> TRUE]
        ELSE LET radial == Over(referenceState.position, r)
             IN  IF h = 0
                 THEN [threw |-> FALSE, radial |-> radial,
                       alongTrack |-> IF v > 0 THEN Over(referenceState.velocity, v)
                                      ELSE <<1, 0, 0>>,
                       crossTrack |-> <<0, 0, 1>>]
                 ELSE LET crossTrack == Over(hvec, h)
                          avec == Cross(crossTrack, radial)
                          a == Norm(avec)
                      IN  [threw |-> FALSE, radial |-> radial,
                           alongTrack |-> IF a > 0 THEN Over(avec, a) ELSE <<1, 0, 0>>,
                           crossTrack |-> crossTrack]

rtnToEci(rtnVector, state) ==
    LET localFrame == computeLocalFrame(state)
    IN  IF localFrame.threw THEN [threw |-> TRUE]
        ELSE LET R == localFrame.radial
                 T == localFrame.alongTrack
                 N == localFrame.crossTrack
             IN  [threw |-> FALSE,
                  dvVector |-> [k \in 1..3 |-> rtnVector[1] * R[k] + rtnVector[2] * T[k]
                                                 + rtnVector[3] * N[k]]]

\* mutant: a request above the budget is burnt down to an empty budget
applyDeltaVUnchecked(state, dvVector, dvRemaining) ==
    IF dvRemaining < 0 THEN [threw |-> TRUE, state |-> state]
    ELSE [threw |-> FALSE, state |-> state,
          newState |-> [position |-> state.position,
                        velocity |-> [k \in 1..3 |-> state.velocity[k] + dvVector[k]]],
          newDvRemaining |-> Max(0, dvRemaining - Norm(dvVector))]

\* mutant: a burn does not use up budget
applyDeltaVNoDecrement(state, dvVector, dvRemaining) ==
    IF dvRemaining < 0 \/ Norm(dvVector) > dvRemaining THEN [threw |-> TRUE, state |-> state]
    ELSE [threw |-> FALSE, state |-> state,
          newState |-> [position |-> state.position,
                        velocity |-> [k \in 1..3 |-> state.velocity[k] + dvVector[k]]],
          newDvRemaining |-> dvRemaining]

\* applyDeltaV(state, dvVector, dvRemaining): whether it threw, the value returned
\* and the argument object `state` as the call left it (it is never assigned to)
applyDeltaV(state, dvVector, dvRemaining) ==
    IF dvRemaining < 0 THEN [threw |-> TRUE, state |-> state]
    ELSE LET dvMagnitude == Norm(dvVector)
         IN  IF dvMagnitude > dvRemaining THEN [threw |-> TRUE, state |-> state]
             ELSE [threw |-> FALSE, state |-> state,
                   newState |-> [position |-> state.position,
                                 velocity |-> [k \in 1..3 |->
                                                  state.velocity[k] + dvVector[k]]],
                   newDvRemaining |-> Max(0, dvRemaining - dvMagnitude)]

\* agent store applyDeltaVToAgent(id, rtnVector): the agents array after the call,
\* whether the agent was found, whether the call threw, the ECI vector burnt
applyDeltaVToAgent(ags, id, rtnVector) ==
    IF ~HasAgent(ags, id) THEN [agents |-> ags, found |-> FALSE, threw |-> FALSE]
    ELSE LET agent == AgentById(ags, id)
             eci == rtnToEci(rtnVector, agent.state)
         IN  IF eci.threw THEN [agents |-> ags, found |-> TRUE, threw |-> TRUE]
             ELSE LET r == applyDeltaV(agent.state, eci.dvVector, agent.dvRemaining)
                  IN  IF r.threw
                      THEN [agents |-> ags, found |-> TRUE, threw |-> TRUE,
                            dvVector |-> eci.dvVector]
                      ELSE [agents |-> [i \in 1..Len(ags) |->
                                           IF ags[i].id = id
                                           THEN [ags[i] EXCEPT !.state = r.newState,
                                                               !.dvRemaining = r.newDvRemaining]
                                           ELSE ags[i]],
                            found |-> TRUE, threw |-> FALSE, dvVector |-> eci.dvVector]

(***************************************************************************)
(* Specification BurnSpec: agents created with a budget, then any sequence *)
(* of applyDeltaVToAgent calls on the store and of direct applyDeltaV      *)
(* calls.                                                                  *)
(***************************************************************************)
\* budgets agents are created with (the scenario schema admits none below 0)
Budgets == {b \in 0..MaxBudget : b \in {0, 10} \/ b >= MaxBudget}
\* RTN requests, of magnitude 0, 5, 5, 10 and 13
RtnVectors == {<<0, 0, 0>>, <<3, 4, 0>>, <<0, -5, 0>>, <<-6, 8, 0>>, <<5, 12, 0>>}
\* arguments of direct applyDeltaV calls: budgets -1, 0, 100; magnitudes 0, 100, 150
DvBudgets == {-1, 0, 100}
DvVectors == {<<0, 0, 0>>, <<60, 80, 0>>, <<90, 0, 120>>}
BurnStates == {[position |-> <<1000, 0, 0>>, velocity |-> Fast]}

\* the agent lists of the burn model: a1 alone or followed by a2, both at 1000 m
BurnAgents ==
    {ags \in AgentLists : /\ ags # <<>> /\ ags[1].id = AgentOrder[1]
                          /\ \A i \in 1..Len(ags) : ags[i].state.position = <<1000, 0, 0>>}

\* a1 starts at rest or moving along track, with any budget; a2 at rest with 10 m/s
BurnInit ==
    /\ \E ags \in BurnAgents, b \in Budgets, v \in {Slow, Fast} :
           agents = [i \in 1..Len(ags) |->
                        IF i = 1 THEN [ags[i] EXCEPT !.dvRemaining = b, !.state.velocity = v]
                        ELSE [ags[i] EXCEPT !.dvRemaining = Min(10, MaxBudget)]]
    /\ budget0 = [i \in 1..Len(agents) |-> agents[i].dvRemaining]
    /\ spent = [i \in 1..Len(agents) |-> 0]
    /\ selectedAgentId = NULL
    /\ call = [op |-> "setAgents"]
    /\ NoClock
    /\ NoTasks

BurnIdle ==
    UNCHANGED <<selectedAgentId, objectives, score, timer, clockVars, taskHist, budget0>>

ApplyDeltaVCall ==
    \E state \in BurnStates, dvVector \in DvVectors, dvRemaining \in DvBudgets :
        /\ call' = [op |-> "applyDeltaV", state |-> state, dvVector |-> dvVector,
                    dvRemaining |-> dvRemaining,
                    result |-> applyDeltaV(state, dvVector, dvRemaining)]
        /\ UNCHANGED <<agents, spent>>
        /\ BurnIdle

ApplyDeltaVToAgent ==
    \E id \in AgentIds \cup {"ghost"}, rtnVector \in RtnVectors :
        LET r == applyDeltaVToAgent(agents, id, rtnVector)
        IN  /\ agents' = r.agents
            /\ call' = [op |-> "applyDeltaVToAgent", id |-> id, rtnVector |-> rtnVector,
                        found |-> r.found, threw |-> r.threw,
                        dvMagnitude |-> IF "dvVector" \in DOMAIN r THEN Norm(r.dvVector)
                                        ELSE 0,
                        before |-> agents]
            /\ spent' = [i \in 1..Len(agents) |->
                            IF agents[i].id = id /\ r.found /\ ~r.threw
                            THEN spent[i] + Norm(r.dvVector) ELSE spent[i]]
            /\ BurnIdle

BurnNext == ApplyDeltaVCall \/ ApplyDeltaVToAgent

BurnSpec == BurnInit /\ [][BurnNext]_vars

(***************************************************************************)
(* Claims about delta-v burns (BurnSpec).                                  *)
(***************************************************************************)
\* C7: applyDeltaV fails whenever dvRemaining < 0 or |dv| > dvRemaining, and a
\* failed burn changes nothing: the argument state is what it was, and after a
\* failed applyDeltaVToAgent the stored agents (position, velocity, dvRemaining)
\* are exactly what they were before the call.
C7_FailedBurnChangesNothing ==
    /\ call.op = "applyDeltaV" =>
          /\ (call.dvRemaining < 0 \/ Norm(call.dvVector) > call.dvRemaining)
                => call.result.threw
          /\ call.result.threw => call.result.state = call.state
    /\ (call.op = "applyDeltaVToAgent" /\ call.found) =>
          /\ (AgentById(call.before, call.id).dvRemaining < 0
                \/ call.dvMagnitude > AgentById(call.before, call.id).dvRemaining)
                => call.threw
          /\ call.threw => agents = call.before

\* C7 witness: an agent that has burnt before and still has budget is asked for
\* more than it has left; the call failed.
C7_Witness ==
    /\ call.op = "applyDeltaVToAgent" /\ call.found /\ call.threw
    /\ \E i \in 1..Len(agents) :
          /\ agents[i].id = call.id /\ spent[i] > 0
          /\ agents[i].dvRemaining > 0 /\ call.dvMagnitude > agents[i].dvRemaining

\* C8: whatever burns succeeded or failed, every agent's dvRemaining is >= 0 and
\* not above what it was before the last call; a successful burn leaves
\* max(0, dvRemaining - |dv|), which is dvRemaining - |dv|; the magnitudes burnt
\* by an agent add up to at most its initial budget.
C8_BudgetOnlyDecreases ==
    /\ \A i \in 1..Len(agents) :
          /\ agents[i].dvRemaining >= 0
          /\ spent[i] <= budget0[i]
          /\ agents[i].dvRemaining = budget0[i] - spent[i]
    /\ (call.op = "applyDeltaVToAgent" /\ call.found) =>
          \A i \in 1..Len(agents) :
              /\ agents[i].dvRemaining <= call.before[i].dvRemaining
              /\ (agents[i].id = call.id /\ ~call.threw) =>
                    /\ agents[i].dvRemaining
                         = Max(0, call.before[i].dvRemaining - call.dvMagnitude)
                    /\ agents[i].dvRemaining = call.before[i].dvRemaining - call.dvMagnitude

\* C8 witness: an agent has burnt its whole budget in more than one burn, the
\* last of them just now.
C8_Witness ==
    /\ call.op = "applyDeltaVToAgent" /\ call.found /\ ~call.threw
    /\ \E i \in 1..Len(agents) :
          /\ agents[i].id = call.id /\ agents[i].dvRemaining = 0
          /\ spent[i] = budget0[i] /\ call.dvMagnitude > 0 /\ call.dvMagnitude < spent[i]

(***************************************************************************)
(* sim/swarm: enforceMinimumSeparation.  Positions are whole metres on the *)
(* line through <<300, 400, 0>>, where every distance is a whole number;   *)
(* velocity adjustments are in units of 0.01 m/s, in which the repulsion   *)
(* between agents of such a line is a whole number too.  With whole metres *)
(* a squared distance above the floor of 1e-12 is one above 0.             *)
(***************************************************************************)
DEFAULT_BEHAVIOR_PARAMS == [separationWeight |-> 1, minSeparation |-> 1000]

Plus(u, v) == <<u[1] + v[1], u[2] + v[2], u[3] + v[3]>>
Minus(u, v) == <<u[1] - v[1], u[2] - v[2], u[3] - v[3]>>

DistSq(ags, i, j) ==
    LET d == Minus(ags[i].state.position, ags[j].state.position)
    IN  d[1] * d[1] + d[2] * d[2] + d[3] * d[3]

\* the test of line 351
TooClose(ags, i, j, params) ==
    DistSq(ags, i, j) < params.minSeparation * params.minSeparation /\ DistSq(ags, i, j) > 0

\* direction * repulsionWeight of the pair (i, j), in 0.01 m/s
Repulsion(ags, i, j, params) ==
    LET d == Minus(ags[i].state.position, ags[j].state.position)
        dist == Sqrt(DistSq(ags, i, j))
        scaled == params.separationWeight * (params.minSeparation - dist) * 1000
        Component(x) == IF x >= 0 THEN (x * scaled) \div (dist * params.minSeparation)
                        ELSE 0 - (((0 - x) * scaled) \div (dist * params.minSeparation))
    IN  <<Component(d[1]), Component(d[2]), Component(d[3])>>

\* the pairs (i, j) with i < j in the order of the two loops
LoopPairs(n) ==
    [k \in 1..((n * (n - 1)) \div 2) |->
        CHOOSE pr \in (1..n) \X (1..n) :
            /\ pr[1] < pr[2]
            /\ Cardinality({q \in (1..n) \X (1..n) :
                              /\ q[1] < q[2]
                              /\ q[1] < pr[1] \/ (q[1] = pr[1] /\ q[2] <= pr[2])}) = k]

\* mutant: the repulsion is added to the first agent of a pair only
SeparatePairOneSided(ags, st, i, j, params) ==
    IF st.threw \/ ~TooClose(ags, i, j, params) THEN st
    ELSE IF i > Len(st.adjustments) THEN [st EXCEPT !.threw = TRUE]
    ELSE [st EXCEPT !.adjustments[i] = Plus(@, Repulsion(ags, i, j, params))]

\* body of the inner loop for the pair (i, j), on the array and on whether a
\* TypeError has ended the call: adjustments[i] or adjustments[j] is undefined
\* when the array is shorter than the agent list, and the entry of i is written
\* before the entry of j is read
SeparatePair(ags, st, i, j, params) ==
    IF st.threw \/ ~TooClose(ags, i, j, params) THEN st
    ELSE IF i > Len(st.adjustments) THEN [st EXCEPT !.threw = TRUE]
    ELSE IF j > Len(st.adjustments)
    THEN [st EXCEPT !.adjustments[i] = Plus(@, Repulsion(ags, i, j, params)),
                    !.threw = TRUE]
    ELSE [st EXCEPT !.adjustments[i] = Plus(@, Repulsion(ags, i, j, params)),
                    !.adjustments[j] = Minus(@, Repulsion(ags, i, j, params))]

RECURSIVE SeparationLoop(_, _, _, _)
SeparationLoop(ags, st, pairs, params) ==
    IF pairs = <<>> THEN st
    ELSE SeparationLoop(ags, SeparatePair(ags, st, Head(pairs)[1], Head(pairs)[2], params),
                        Tail(pairs), params)

\* enforceMinimumSeparation(agents, adjustments, params): the adjustments array
\* after the call and whether the call threw
enforceMinimumSeparation(ags, adjustments, params) ==
    SeparationLoop(ags, [adjustments |-> adjustments, threw |-> FALSE],
                   LoopPairs(Len(ags)), params)

(***************************************************************************)
(* Specification SeparationSpec: two or three agents anywhere on the line  *)
(* (0 m, 500 m, 1000 m and 2000 m from its start, several of them possibly *)
(* at the same point), an adjustments array with one entry per agent or,   *)
(* as the tick hands it over while an agent is selected, one entry short,  *)
(* and calls of enforceMinimumSeparation on the array.                     *)
(***************************************************************************)
LinePositions == {<<300 * k, 400 * k, 0>> : k \in {0, 1, 2, 4}}
StartAdjustments == {<<0, 0, 0>>, <<5, -7, 2>>}
SeparationIds == <<"a1", "a2", "a3">>

SeparationInit ==
    /\ \E n \in 2..3 :
       \E ps \in [1..n -> LinePositions], m \in {n - 1, n} :
       \E adj \in [1..m -> StartAdjustments] :
          /\ agents = [i \in 1..n |-> MkAgent(SeparationIds[i], ps[i], Slow)]
          /\ call = [op |-> "init", passes |-> 0, adjustments |-> adj, threw |-> FALSE]
    /\ selectedAgentId = NULL /\ budget0 = <<>> /\ spent = <<>>
    /\ NoTasks
    /\ NoClock

EnforceMinimumSeparation ==
    /\ call.passes < MaxSeparationPasses
    /\ ~call.threw
    /\ \E r \in {enforceMinimumSeparation(agents, call.adjustments, DEFAULT_BEHAVIOR_PARAMS)} :
          call' = [op |-> "enforceMinimumSeparation", passes |-> call.passes + 1,
                   before |-> call.adjustments, adjustments |-> r.adjustments,
                   threw |-> r.threw]
    /\ UNCHANGED <<storeVars, objectives, clockVars, taskHist, burnHist>>

SeparationNext == EnforceMinimumSeparation

SeparationSpec == SeparationInit /\ [][SeparationNext]_vars

(***************************************************************************)
(* Claims about enforceMinimumSeparation (SeparationSpec).                 *)
(***************************************************************************)
AgentPairs == {pr \in (1..Len(agents)) \X (1..Len(agents)) : pr[1] < pr[2]}

ClosePairs == {q \in AgentPairs : TooClose(agents, q[1], q[2], DEFAULT_BEHAVIOR_PARAMS)}

\* what the call added to entry k of the adjustments array
Applied(k) == Minus(call.adjustments[k], call.before[k])

\* what came to entry k from the pairs in ps
RECURSIVE FromPairs(_, _)
FromPairs(k, ps) ==
    IF ps = {} THEN <<0, 0, 0>>
    ELSE LET q == CHOOSE x \in ps : TRUE
             rest == FromPairs(k, ps \ {q})
             push == Repulsion(agents, q[1], q[2], DEFAULT_BEHAVIOR_PARAMS)
         IN  IF k = q[1] THEN Plus(rest, push)
             ELSE IF k = q[2] THEN Minus(rest, push)
             ELSE rest

\* the pair pr received an equal-and-opposite repulsive adjustment: both agents
\* have an entry in the array and, once what the other close pairs contributed
\* is taken off, the first agent's entry grew by a vector d pointing away from
\* the second agent, d is not zero, and the second agent's entry grew by -d
PushedApart(pr) ==
    /\ pr[2] <= Len(call.adjustments)
    /\ LET d1 == Minus(Applied(pr[1]), FromPairs(pr[1], ClosePairs \ {pr}))
           d2 == Minus(Applied(pr[2]), FromPairs(pr[2], ClosePairs \ {pr}))
           away == Minus(agents[pr[1]].state.position, agents[pr[2]].state.position)
       IN  /\ d1 # <<0, 0, 0>>
           /\ Plus(d1, d2) = <<0, 0, 0>>
           /\ \A c \in 1..3 : d1[c] * away[c] >= 0 /\ (away[c] = 0 => d1[c] = 0)

\* C15 (as claimed): after enforceMinimumSeparation, every pair of agents was
\* either further apart than minSeparation or received an equal-and-opposite
\* repulsive adjustment.
C15_FarOrPushedApart ==
    (call.op = "enforceMinimumSeparation" /\ ~call.threw) =>
        \A pr \in AgentPairs :
            \/ DistSq(agents, pr[1], pr[2])
                 > DEFAULT_BEHAVIOR_PARAMS.minSeparation * DEFAULT_BEHAVIOR_PARAMS.minSeparation
            \/ PushedApart(pr)

\* C15 (amended): after enforceMinimumSeparation has returned, every pair of
\* agents was at least minSeparation apart, or at one and the same point (no
\* further apart than the numerical floor), or the entries of the adjustments
\* array at the two agents' indices received an equal-and-opposite repulsive
\* adjustment; nothing else was added to any entry.
C15_FarOrCoincidentOrPushedApart ==
    (call.op = "enforceMinimumSeparation" /\ ~call.threw) =>
        /\ \A pr \in AgentPairs :
              \/ DistSq(agents, pr[1], pr[2])
                   >= DEFAULT_BEHAVIOR_PARAMS.minSeparation
                        * DEFAULT_BEHAVIOR_PARAMS.minSeparation
              \/ DistSq(agents, pr[1], pr[2]) = 0
              \/ PushedApart(pr)
        /\ \A k \in 1..Len(call.adjustments) : Applied(k) = FromPairs(k, ClosePairs)

\* C15 witness: of three agents with an adjustment each, the first two are at one
\* point and the third is 500 m from both; the third was pushed away from each of
\* them, and the first two received the same adjustment.
C15_Witness ==
    /\ call.op = "enforceMinimumSeparation" /\ ~call.threw
    /\ Len(agents) = 3 /\ Len(call.adjustments) = 3
    /\ DistSq(agents, 1, 2) = 0 /\ DistSq(agents, 1, 3) = 500 * 500
    /\ Applied(1) = Applied(2) /\ Applied(1) # <<0, 0, 0>>
    /\ Applied(3) = Minus(<<0, 0, 0>>, Plus(Applied(1), Applied(2)))

(***************************************************************************)
(* The task store's and the agent store's actions used by the per-frame    *)
(* tick, as functions from the store's state to its next state.            *)
(***************************************************************************)
\* { ...obj, ...updates }
Merge(obj, updates) ==
    [f \in DOMAIN obj \cup DOMAIN updates |->
        IF f \in DOMAIN updates THEN updates[f] ELSE obj[f]]

\* task store updateObjective(id, updates), on the objectives array
updateObjective(objs, id, updates) ==
    [i \in 1..Len(objs) |-> IF objs[i].id = id THEN Merge(objs[i], updates) ELSE objs[i]]

\* array.find((o) => o.id === id): the index of the first match, 0 if none
FindIndex(seq, id) ==
    IF \E i \in 1..Len(seq) : seq[i].id = id
    THEN CHOOSE i \in 1..Len(seq) : seq[i].id = id /\ \A j \in 1..(i - 1) : seq[j].id # id
    ELSE 0

\* task store completeObjective(id), on [objectives, score, timer]
completeObjective(st, id) ==
    LET k == FindIndex(st.objectives, id)
    IN  IF k = 0 \/ st.objectives[k].completed THEN st
        ELSE LET updatedObjectives ==
                     [i \in 1..Len(st.objectives) |->
                         IF st.objectives[i].id = id
                         THEN [st.objectives[i] EXCEPT !.completed = TRUE]
                         ELSE st.objectives[i]]
                 allCompleted == \A i \in 1..Len(updatedObjectives) :
                                     updatedObjectives[i].completed
             IN  [objectives |-> updatedObjectives,
                  score |-> st.score + st.objectives[k].points,
                  timer |-> [st.timer EXCEPT !.timerRunning = ~allCompleted]]

\* task store updateTimer(deltaTime), on the timer
updateTimer(t, deltaTime) ==
    IF ~t.timerRunning THEN t ELSE [t EXCEPT !.gameTime = @ + deltaTime]

\* agent store updateAgentsBatch(updates); updates maps the ids updated to states
updateAgentsBatch(ags, updates) ==
    [i \in 1..Len(ags) |->
        IF ags[i].id \in DOMAIN updates THEN [ags[i] EXCEPT !.state = updates[ags[i].id]]
        ELSE ags[i]]

\* agent store selectAgent(id) and clearSelection(), on the agents array
selectAgent(ags, id) == [i \in 1..Len(ags) |-> [ags[i] EXCEPT !.selected = (ags[i].id = id)]]

clearSelection(ags) == [i \in 1..Len(ags) |-> [ags[i] EXCEPT !.selected = FALSE]]

(***************************************************************************)
(* render/Agents: the useFrame callback (the tick).  `objs` is the         *)
(* objectives array the component rendered with, which is the task store's *)
(* array when the frame starts.  What steering, swarm forces, separation   *)
(* and Kepler propagation make of the agents' states is an input of the    *)
(* tick: `propagated` maps every agent id to its state after propagation.  *)
(***************************************************************************)
Rank(id) == CHOOSE k \in 1..Len(AgentOrder) : AgentOrder[k] = id

\* Array.prototype.sort() on agent ids
SortIds(ids) == SortSeq(ids, LAMBDA x, y : Rank(x) < Rank(y))

\* lines 84-101, one iteration: write the assignment of an allocated copy back to
\* the store; both assignedAgentIds arrays are sorted in place before they are compared
WriteAssignment(st, objs, obj) ==
    LET k == FindIndex(objs, obj.id)
    IN  IF obj.type = RELAY_NODE
        THEN IF k # 0 /\ "assignedAgentId" \in DOMAIN objs[k]
                /\ objs[k].assignedAgentId # obj.assignedAgentId
             THEN updateObjective(st, obj.id, [assignedAgentId |-> obj.assignedAgentId])
             ELSE st
        ELSE IF obj.type = HOLD_FORMATION_ZONE
        THEN IF k # 0 /\ "assignedAgentIds" \in DOMAIN objs[k]
             THEN LET sortedCur == SortIds(objs[k].assignedAgentIds)
                      sortedNew == SortIds(obj.assignedAgentIds)
                      inPlace == [j \in 1..Len(st) |->
                                     IF j = k /\ st[j].id = objs[k].id
                                     THEN [st[j] EXCEPT !.assignedAgentIds = sortedCur]
                                     ELSE st[j]]
                  IN  IF sortedCur # sortedNew
                      THEN updateObjective(inPlace, obj.id, [assignedAgentIds |-> sortedNew])
                      ELSE inPlace
             ELSE st
        ELSE st

RECURSIVE WriteAssignments(_, _, _, _)
WriteAssignments(st, objs, copies, i) ==
    IF i > Len(copies) THEN st
    ELSE WriteAssignments(WriteAssignment(st, objs, copies[i]), objs, copies, i + 1)

\* lines 179-197, one iteration: write completion and relay start time of an updated
\* copy back to the store
WriteCompleted(st, objs, obj) ==
    LET k == FindIndex(objs, obj.id)
    IN  IF k = 0 THEN st
        ELSE LET cDiff == obj.completed # objs[k].completed
                 sDiff == /\ obj.type = RELAY_NODE /\ objs[k].type = RELAY_NODE
                          /\ obj.startTime # objs[k].startTime
             IN  IF cDiff /\ sDiff
                 THEN updateObjective(st, obj.id, [completed |-> obj.completed,
                                                   startTime |-> obj.startTime])
                 ELSE IF cDiff
                 THEN updateObjective(st, obj.id, [completed |-> obj.completed])
                 ELSE IF sDiff
                 THEN updateObjective(st, obj.id, [startTime |-> obj.startTime])
                 ELSE st

RECURSIVE WriteCompletion(_, _, _, _)
WriteCompletion(st, objs, copies, i) ==
    IF i > Len(copies) THEN st
    ELSE WriteCompletion(WriteCompleted(st, objs, copies[i]), objs, copies, i + 1)

\* lines 200-202: completeObjective for every id returned as newly completed
RECURSIVE CompleteAll(_, _)
CompleteAll(st, ids) ==
    IF ids = <<>> THEN st ELSE CompleteAll(completeObjective(st, Head(ids)), Tail(ids))

\* lines 59-65: the selected agents are player-controlled, the others auto-navigated
PlayerControlled(ags) == LET IsPlayer(a) == a.selected IN SelectSeq(ags, IsPlayer)

AutoAgents(ags) == LET IsAuto(a) == ~a.selected IN SelectSeq(ags, IsAuto)

\* the agents with their propagated states
Moved(seq, propagated) ==
    [i \in 1..Len(seq) |-> [seq[i] EXCEPT !.state = propagated[seq[i].id]]]

\* the updates handed to updateAgentsBatch for the agents of seq
Updates(seq, propagated) == [id \in {seq[i].id : i \in 1..Len(seq)} |-> propagated[id]]

\* the rendered objectives after lines 94-95: they share the assignedAgentIds arrays
\* that were sorted in place
SortedInPlace(objs) ==
    [i \in 1..Len(objs) |->
        IF objs[i].type = HOLD_FORMATION_ZONE
        THEN [objs[i] EXCEPT !.assignedAgentIds = SortIds(@)]
        ELSE objs[i]]

(***************************************************************************)
(* Specification TickSpec: a scenario is loaded and a running clock is     *)
(* attached; frames advance the clock (useSimClock) and run the tick       *)
(* (Agents); the user selects agents and toggles pause.  Times are in the  *)
(* clock's unit (1e-5 s).                                                  *)
(***************************************************************************)

\* the scenario's objectives, with a relay hold of 10 s in the clock's unit
TickObjectives ==
    LET objs == ScenarioObjectives([i \in ObjIdx |-> FALSE])
    IN  [i \in ObjIdx |-> IF IsRelay(objs[i]) THEN [objs[i] EXCEPT !.holdDuration = Seconds(10)]
                          ELSE objs[i]]

\* states propagation can leave an agent in: at rest at any position, or passing
\* the inspect point at 20 m/s
TickStates ==
    {[position |-> p, velocity |-> Slow] : p \in Positions}
        \cup {[position |-> <<2000, 0, 0>>, velocity |-> Fast]}

\* frame deltas of the tick model: 100 ms, i.e. 10 s at time scale 100
TickFrameDeltas == {100}

TickInit ==
    /\ agents \in AgentLists \ {<<>>}
    /\ selectedAgentId = NULL
    /\ budget0 = [i \in 1..Len(agents) |-> agents[i].dvRemaining]
    /\ spent = [i \in 1..Len(agents) |-> 0]
    /\ objectives = TickObjectives
    /\ objectives0 = objectives
    /\ score = 0
    /\ timer = [gameTime |-> 0, timerRunning |-> TRUE]
    /\ clock = NewSimClock([seed |-> "default", timeScale |-> MaxTimeScale, paused |-> FALSE])
    /\ rng = SeedRng(clock.seed)
    /\ clockStore = [paused |-> FALSE, timeScale |-> MaxTimeScale, simTime |-> 0,
                     seed |-> "default", attached |-> TRUE]
    /\ lastSimTime \in {NoTime, clock.simTime}
    /\ advances = 0
    /\ runs = <<>> /\ snapshot = <<>>
    /\ call = [op |-> "loadScenario"]
    /\ emitted = [i \in ObjIdx |-> 0]
    /\ holdT0 = [i \in ObjIdx |-> NoTime]
    /\ exitAt = [i \in ObjIdx |-> NoTime]

\* useSimClock's frame callback: clock.update(delta), then setSimTime if time advanced
ClockFrame ==
    \E frameDelta \in TickFrameDeltas :
        LET r == update(clock, frameDelta)
        IN  /\ clockStore.attached
            /\ r.clock.simTime <= Seconds(MaxTickTime)
            /\ clock' = r.clock
            /\ clockStore' = IF r.ret > 0 THEN [clockStore EXCEPT !.simTime = r.clock.simTime]
                             ELSE clockStore
            /\ call' = [op |-> "clockFrame", ret |-> r.ret]
            /\ UNCHANGED <<storeVars, objectives, rng, lastSimTime, advances, runs, snapshot,
                           taskHist, burnHist>>

\* sim-clock store toggle()
StoreToggle ==
    /\ IF clockStore.attached
       THEN /\ clock' = toggle(clock)
            /\ clockStore' = [clockStore EXCEPT !.paused = clock'.paused]
       ELSE /\ clockStore' = [clockStore EXCEPT !.paused = ~clockStore.paused]
            /\ UNCHANGED clock
    /\ call' = [op |-> "toggle"]
    /\ UNCHANGED <<storeVars, objectives, rng, lastSimTime, advances, runs, snapshot, taskHist,
                   burnHist>>

\* agent store selectAgent(id)
SelectAgent ==
    \E id \in AgentIds :
        /\ HasAgent(agents, id)
        /\ agents' = selectAgent(agents, id)
        /\ selectedAgentId' = id
        /\ call' = [op |-> "selectAgent", id |-> id]
        /\ UNCHANGED <<objectives, score, timer, clockVars, taskHist, burnHist>>

\* agent store clearSelection()
ClearSelection ==
    /\ agents' = clearSelection(agents)
    /\ selectedAgentId' = NULL
    /\ call' = [op |-> "clearSelection"]
    /\ UNCHANGED <<objectives, score, timer, clockVars, taskHist, burnHist>>

\* computeObjectiveSteering, lines 106-145: the objective the agent is steered
\* toward (targetObjective after the loop), by its id, NULL if there is none
targetObjective(agent, objs) ==
    LET RECURSIVE Target(_)
        Target(k) ==
            IF k = 0 THEN 0
            ELSE LET t == Target(k - 1)
                     o == objs[k]
                 IN  IF o.completed THEN t
                     ELSE CASE o.type = INSPECT_POINT ->
                                 IF t = 0 THEN k
                                 ELSE IF distance(agent.state.position, o.position)
                                           < distance(agent.state.position, objs[t].position)
                                      THEN k ELSE t
                            [] o.type = RELAY_NODE ->
                                 IF o.assignedAgentId = agent.id THEN k ELSE t
                            [] o.type = HOLD_FORMATION_ZONE ->
                                 IF agent.id \in Range(o.assignedAgentIds) THEN k ELSE t
        last == Target(Len(objs))
    IN  IF last = 0 THEN NULL ELSE objs[last].id

\* lines 76-207 of the frame callback: objectives exist and some agent is
\* auto-navigated.  Allocation, write-back of the assignments, propagation,
\* steering target of every auto-navigated agent (computeObjectiveSteeringBatch on
\* the rendered objectives, line 107), the agents handed to enforceMinimumSeparation
\* and the agents whose adjustments are handed to it (line 129), completion check
\* on copies of the rendered objectives, write-back of completion
\* and start times, completeObjective for the ids returned, game timer.
TickWithObjectives(player, auto, simDelta, propagated) ==
    \E objectivesCopy \in {allocateTasks(auto, objectives)} :
    \E stored1 \in {WriteAssignments(objectives, objectives, objectivesCopy, 1)},
       rendered \in {SortedInPlace(objectives)},
       moved \in {Moved(player \o auto, propagated)} :
    \E r \in {updateObjectiveState(rendered, moved, clock.simTime)} :
    \E stored2 \in {WriteCompletion(stored1, rendered, r.objectives, 1)} :
    \E st \in {CompleteAll([objectives |-> stored2, score |-> score, timer |-> timer],
                           r.newlyCompleted)} :
        /\ agents' = updateAgentsBatch(agents, Updates(agents, propagated))
        /\ objectives' = st.objectives
        /\ score' = st.score
        /\ timer' = IF timer.timerRunning THEN updateTimer(st.timer, simDelta) ELSE st.timer
        /\ call' = [op |-> "tick", simDelta |-> simDelta, newlyCompleted |-> r.newlyCompleted,
                    auto |-> auto, allocated |-> objectivesCopy,
                    separation |-> [agents |-> [i \in 1..Len(agents) |-> agents[i].id],
                                    owners |-> [i \in 1..Len(auto) |-> auto[i].id]],
                    targets |-> [i \in 1..Len(auto) |-> targetObjective(auto[i], rendered)]]

\* lines 208-247: no objectives, or every agent is player-controlled; with
\* auto-navigated agents, enforceMinimumSeparation gets them and their adjustments
\* (line 215)
TickWithoutObjectives(player, auto, simDelta, propagated) ==
    /\ agents' = IF Len(auto) > 0 THEN updateAgentsBatch(agents, Updates(agents, propagated))
                 ELSE updateAgentsBatch(agents, Updates(player, propagated))
    /\ call' = IF Len(auto) > 0
                THEN [op |-> "tick", simDelta |-> simDelta, newlyCompleted |-> <<>>,
                      separation |-> [agents |-> [i \in 1..Len(auto) |-> auto[i].id],
                                      owners |-> [i \in 1..Len(auto) |-> auto[i].id]]]
                ELSE [op |-> "tick", simDelta |-> simDelta, newlyCompleted |-> <<>>]
    /\ UNCHANGED <<objectives, score, timer>>

\* the Agents component's frame callback; a frame with no agents, with the clock
\* paused or with no simulation time elapsed changes nothing
Tick ==
    /\ agents # <<>>
    /\ clockStore.attached /\ ~clockStore.paused
    /\ IF lastSimTime = NoTime
       THEN /\ lastSimTime' = clock.simTime
            /\ call' = [op |-> "tick", simDelta |-> 0, newlyCompleted |-> <<>>]
            /\ UNCHANGED <<agents, objectives, score, timer>>
       ELSE /\ clock.simTime - lastSimTime > 0
            /\ \E propagated \in [AgentIds -> TickStates] :
               \E player \in {PlayerControlled(agents)}, auto \in {AutoAgents(agents)} :
                   IF Len(objectives) > 0 /\ Len(auto) > 0
                   THEN TickWithObjectives(player, auto, clock.simTime - lastSimTime,
                                           propagated)
                   ELSE TickWithoutObjectives(player, auto, clock.simTime - lastSimTime,
                                              propagated)
            /\ lastSimTime' = clock.simTime
    /\ UNCHANGED <<selectedAgentId, clock, rng, clockStore, advances, runs, snapshot, taskHist,
                   burnHist>>

TickNext == ClockFrame \/ StoreToggle \/ SelectAgent \/ ClearSelection \/ Tick

TickSpec == TickInit /\ [][TickNext]_vars

(***************************************************************************)
(* Claims about the per-frame tick (TickSpec).                             *)
(***************************************************************************)
RECURSIVE SumPoints(_, _)
SumPoints(objs, done) ==
    IF done = {} THEN 0
    ELSE LET i == CHOOSE j \in done : TRUE
         IN  objs[i].points + SumPoints(objs, done \ {i})

\* C3 (as claimed): every objective that newly completes has its points awarded
\* exactly once, in the tick in which it completes: after any run the score is
\* the sum of the points of the objectives completed during the run.
C3_ScoreIsSumOfCompleted ==
    score = SumPoints(objectives,
                      {i \in ObjIdx : objectives[i].completed /\ ~objectives0[i].completed})


(***************************************************************************)
(* Specification StoreSpec: the sim-clock store with a clock instance      *)
(* attached (setClockInstance(new SimClock())), driven by its actions      *)
(* setPaused, setTimeScale, setSeed, toggle, step and reset.               *)
(***************************************************************************)
StoreInit ==
    /\ NoAgents
    /\ NoTasks
    /\ clock = NewSimClock(<<>>) /\ rng = SeedRng(clock.seed)
    /\ clockStore = [NewClockStore EXCEPT !.attached = TRUE]
    /\ lastSimTime = NoTime /\ advances = 0 /\ runs = <<>> /\ snapshot = <<>>
    /\ call = [op |-> "setClockInstance"]

StoreIdle ==
    UNCHANGED <<storeVars, objectives, taskHist, burnHist, lastSimTime, runs, snapshot>>

\* setPaused(paused)
StoreSetPaused ==
    \E paused \in BOOLEAN :
        /\ clockStore' = [clockStore EXCEPT !.paused = paused]
        /\ clock' = IF ~clockStore.attached THEN clock
                    ELSE IF paused THEN pause(clock) ELSE play(clock)
        /\ call' = [op |-> "setPaused", paused |-> paused]
        /\ UNCHANGED <<rng, advances>>
        /\ StoreIdle

\* setTimeScale(timeScale)
StoreSetTimeScale ==
    \E scale \in Scales :
        /\ clockStore' = [clockStore EXCEPT !.timeScale = scale]
        /\ clock' = IF clockStore.attached THEN setTimeScale(clock, scale) ELSE clock
        /\ call' = [op |-> "setTimeScale", scale |-> scale]
        /\ UNCHANGED <<rng, advances>>
        /\ StoreIdle

\* setSeed(seed): with a clock, clock.setSeed(seed), clock.reset() and simTime: 0
StoreSetSeed ==
    \E seed \in Seeds :
        /\ IF clockStore.attached
           THEN /\ clockStore' = [clockStore EXCEPT !.seed = seed, !.simTime = 0]
                /\ clock' = reset(setSeed(clock, seed))
                /\ rng' = SeedRng(seed)
           ELSE /\ clockStore' = [clockStore EXCEPT !.seed = seed]
                /\ UNCHANGED <<clock, rng>>
        /\ call' = [op |-> "setSeed", seed |-> seed]
        /\ UNCHANGED advances
        /\ StoreIdle

\* step(): clock.step() when a clock is attached and paused, else simTime + 1.0
StoreStep ==
    /\ advances < MaxAdvances
    /\ IF clockStore.attached /\ clock.paused
       THEN /\ clock' = step(clock).clock
            /\ clockStore' = [clockStore EXCEPT !.simTime = clock'.simTime]
       ELSE /\ clockStore' = [clockStore EXCEPT !.simTime = @ + Seconds(1)]
            /\ UNCHANGED clock
    /\ advances' = advances + 1
    /\ call' = [op |-> "step"]
    /\ UNCHANGED rng
    /\ StoreIdle

\* reset()
StoreReset ==
    /\ clockStore' = [clockStore EXCEPT !.simTime = 0]
    /\ IF clockStore.attached
       THEN clock' = reset(clock) /\ rng' = SeedRng(clock.seed)
       ELSE UNCHANGED <<clock, rng>>
    /\ call' = [op |-> "reset"]
    /\ UNCHANGED advances
    /\ StoreIdle

StoreNext ==
    \/ StoreSetPaused \/ StoreSetTimeScale \/ StoreSetSeed \/ StoreToggle \/ StoreStep
    \/ StoreReset

StoreSpec == StoreInit /\ [][StoreNext]_vars

(***************************************************************************)
(* Claims about the sim-clock store (StoreSpec).                           *)
(***************************************************************************)
\* C21: with a clock attached, the store and the clock agree on paused, time
\* scale, seed and simulation time, and the stored time scale is within 0.1 to 100.
C21_StoreAgreesWithClock ==
    clockStore.attached =>
        /\ clockStore.paused = clock.paused
        /\ clockStore.timeScale = clock.timeScale
        /\ clockStore.timeScale >= MinTimeScale /\ clockStore.timeScale <= MaxTimeScale
        /\ clockStore.seed = clock.seed
        /\ clockStore.simTime = clock.simTime

(***************************************************************************)
(* sim/swarm computeSwarmForces: the active set and what is derived from   *)
(* it.  BehaviorFlags.formation is optional; a field left out is held as   *)
(* "undefined", FormationType.NONE is the string 'none'.                   *)
(***************************************************************************)
\* the filter of lines 208-211 and the test of line 233: b.cohesion ||
\* b.separation || b.alignment || b.formation, a non-empty string being truthy
IsActive(b) == b.cohesion \/ b.separation \/ b.alignment \/ b.formation # "undefined"

\* computeCentroid(states): the sums and the count it divides them by
computeCentroid(states) ==
    LET RECURSIVE Sum(_)
        Sum(k) == IF k = 0 THEN [position |-> <<0, 0, 0>>, velocity |-> <<0, 0, 0>>]
                  ELSE [position |-> Plus(Sum(k - 1).position, states[k].position),
                        velocity |-> Plus(Sum(k - 1).velocity, states[k].velocity)]
    IN  [sum |-> Sum(Len(states)), n |-> Len(states)]

\* computeSwarmForces(agents, params, deltaTime) up to the arguments of the
\* behaviours: the active agents, their centroid (origin of the shared local
\* frame), and for every agent that passes the test of line 233 its index among
\* the active agents and the slot count handed to getFormationTarget
computeSwarmForces(ags) ==
    LET Active(a) == IsActive(a.behaviors)
        activeAgents == SelectSeq(ags, Active)
        ids == [k \in 1..Len(activeAgents) |-> activeAgents[k].id]
    IN  IF Len(ags) = 0 \/ Len(activeAgents) = 0
        THEN [active |-> <<>>, centroid |-> NULL, slots |-> <<>>]
        ELSE [active |-> ids,
              centroid |-> computeCentroid([k \in 1..Len(activeAgents) |->
                                               activeAgents[k].state]),
              slots |-> [i \in 1..Len(ags) |->
                            IF IsActive(ags[i].behaviors)
                            THEN [activeIndex |-> CHOOSE k \in 1..Len(ids) : ids[k] = ags[i].id,
                                  totalAgents |-> Len(activeAgents)]
                            ELSE NULL]]

(***************************************************************************)
(* Specification SwarmSpec: two or three agents 500 m apart on a line,     *)
(* each with one of the behaviour settings below, and a call of            *)
(* computeSwarmForces on them.                                             *)
(***************************************************************************)
BehaviorSettings ==
    {[cohesion |-> c, separation |-> FALSE, alignment |-> FALSE, formation |-> f] :
        c \in BOOLEAN, f \in {"undefined", "none", "ring"}}

SwarmInit ==
    /\ \E n \in 2..3 :
       \E bs \in [1..n -> BehaviorSettings] :
          agents = [i \in 1..n |->
                      MkAgent(SeparationIds[i], <<300 * i, 400 * i, 0>>, Slow)
                        @@ [behaviors |-> bs[i]]]
    /\ selectedAgentId = NULL /\ budget0 = <<>> /\ spent = <<>>
    /\ NoTasks
    /\ NoClock
    /\ call = [op |-> "init"]

ComputeSwarmForces ==
    /\ call.op = "init"
    /\ \E r \in {computeSwarmForces(agents)} :
          call' = [op |-> "computeSwarmForces", active |-> r.active,
                   centroid |-> r.centroid, slots |-> r.slots]
    /\ UNCHANGED <<storeVars, objectives, clockVars, taskHist, burnHist>>

SwarmSpec == SwarmInit /\ [][ComputeSwarmForces]_vars

(***************************************************************************)
(* Claims about computeSwarmForces (SwarmSpec).                            *)
(***************************************************************************)
\* C22: the active set of computeSwarmForces (the agents behind the centroid and
\* the formation slot count) consists exactly of the agents with cohesion,
\* separation or alignment set or with a formation other than NONE.
C22_ActiveSetIsBehaving ==
    call.op = "computeSwarmForces" =>
        /\ Range(call.active) =
              {agents[i].id : i \in {j \in 1..Len(agents) :
                  LET b == agents[j].behaviors
                  IN  b.cohesion \/ b.separation \/ b.alignment
                        \/ b.formation \notin {"undefined", "none"}}}
        /\ call.active # <<>> => call.centroid.n = Len(call.active)

(***************************************************************************)
(* Claims about allocation and steering within a tick (TickSpec).          *)
(***************************************************************************)
\* an auto-navigated agent of the tick is assigned to objective o by the tick's
\* allocation result
AssignedTo(id, o) ==
    /\ ~o.completed
    /\ \/ o.type = RELAY_NODE /\ o.assignedAgentId = id
       \/ o.type = HOLD_FORMATION_ZONE /\ id \in Range(o.assignedAgentIds)

\* C23: an agent that the tick's allocateTasks leaves assigned to a RelayNode or
\* HoldFormationZone is steered toward an objective it is assigned to in that
\* same tick.
C23_SteeredTowardThisTicksAssignment ==
    (call.op = "tick" /\ "targets" \in DOMAIN call) =>
        \A i \in 1..Len(call.auto) :
            (\E k \in 1..Len(call.allocated) : AssignedTo(call.auto[i].id, call.allocated[k]))
                => \E k \in 1..Len(call.allocated) :
                      /\ AssignedTo(call.auto[i].id, call.allocated[k])
                      /\ call.targets[i] = call.allocated[k].id

(***************************************************************************)
(* Claims about the assignments allocateTasks leaves behind (PassSpec).    *)
(***************************************************************************)
\* C24: a HoldFormationZone's assignedAgentIds never contains the same agent id
\* twice.
C24_ZoneIdsDistinct ==
    \A k \in 1..Len(objectives) :
        IsZone(objectives[k]) =>
            \A i, j \in 1..Len(objectives[k].assignedAgentIds) :
                objectives[k].assignedAgentIds[i] = objectives[k].assignedAgentIds[j] => i = j

\* the uncompleted objectives that hold agent id in a persistent assignment
TiedTo(id) == {k \in 1..Len(objectives) : AssignedTo(id, objectives[k])}

\* C25: after any sequence of allocateTasks passes that started from objectives
\* with no assignments, no agent id is held by more than one uncompleted RelayNode
\* or HoldFormationZone.
C25_AtMostOneAssignment ==
    (/\ \A k \in 1..Len(objectives0) :
           /\ IsRelay(objectives0[k]) => objectives0[k].assignedAgentId = NULL
           /\ IsZone(objectives0[k]) => objectives0[k].assignedAgentIds = <<>>
     /\ call.op = "allocateTasks" /\ call.before = objectives0)
        => \A id \in AgentIds : Cardinality(TiedTo(id)) <= 1

(***************************************************************************)
(* Claims about the tick's call of enforceMinimumSeparation (TickSpec).    *)
(***************************************************************************)
\* C26: in every tick the adjustments array handed to enforceMinimumSeparation
\* has one entry per agent handed to it, at the same index.
C26_AdjustmentsAligned ==
    (call.op = "tick" /\ "separation" \in DOMAIN call) =>
        call.separation.owners = call.separation.agents

(***************************************************************************)
(* Specification ResetSpec: a scenario is loaded and a running clock is    *)
(* attached, as in TickSpec; frames advance the clock and run the tick,    *)
(* and the sim-clock store's reset() and setSeed() (which loadScenario     *)
(* calls) put simulation time back to 0 at any moment.                     *)
(***************************************************************************)
ResetNext == ClockFrame \/ Tick \/ StoreReset \/ StoreSetSeed

ResetSpec == TickInit /\ [][ResetNext]_vars

\* C27: when the running clock's simulation time has advanced in a frame, the
\* tick of that frame propagates the agents: counted from the time of the
\* previous tick, the elapsed simulation time is positive (a tick with
\* simDelta <= 0 returns without propagating).
C27_AdvancingClockPropagates ==
    (/\ call.op = "clockFrame" /\ call.ret > 0
     /\ agents # <<>> /\ clockStore.attached /\ ~clockStore.paused
     /\ lastSimTime # NoTime)
        => clock.simTime - lastSimTime > 0

(***************************************************************************)
(* The frame callback's closure.  useFrame runs the callback of the last   *)
(* render, whose `agents` is the store's array as of that render; a store  *)
(* update between the render and the frame is not in it.  Kepler           *)
(* propagation is kept as a term: a state propagated by dt is the state    *)
(* it started from, marked with the time it was propagated by.             *)
(***************************************************************************)
propagateKepler(state, dt) ==
    [position |-> state.position, velocity |-> state.velocity, elapsed |-> dt]

(***************************************************************************)
(* Specification SnapshotSpec: agents without objectives and without       *)
(* swarm behaviours, both at one point (no steering, no repulsion), the    *)
(* component rendered with them.  Burns commit to the store, the component *)
(* re-renders at some later moment, and a frame propagates the agents of   *)
(* its snapshot by 10 s and applies the batch.  The model follows the      *)
(* agents through one burn that takes effect and one propagation.          *)
(***************************************************************************)
SnapshotInit ==
    /\ \E ags \in BurnAgents, b \in Budgets :
           agents = [i \in 1..Len(ags) |-> [ags[i] EXCEPT !.dvRemaining = b]]
    /\ budget0 = [i \in 1..Len(agents) |-> agents[i].dvRemaining]
    /\ spent = [i \in 1..Len(agents) |-> 0]
    /\ selectedAgentId = NULL
    /\ NoTasks
    /\ clock = NewSimClock(<<>>) /\ rng = SeedRng(clock.seed)
    /\ clockStore = [NewClockStore EXCEPT !.attached = TRUE]
    /\ lastSimTime = 0 /\ advances = 0 /\ runs = <<>>
    /\ snapshot = agents
    /\ call = [op |-> "render"]

\* the component renders with the store's agents
Render ==
    /\ snapshot # agents
    /\ snapshot' = agents
    /\ call' = [op |-> "render"]
    /\ UNCHANGED <<storeVars, objectives, taskHist, burnHist, clock, rng, clockStore,
                   lastSimTime, advances, runs>>

\* the frame callback, lines 42-251, without objectives: every agent of the
\* snapshot is propagated and updateAgentsBatch is applied to the store
SnapshotTick ==
    /\ advances = 0
    /\ \E simDelta \in {Seconds(10)} :
          /\ agents' = updateAgentsBatch(agents,
                          [id \in {snapshot[i].id : i \in 1..Len(snapshot)} |->
                              propagateKepler(AgentById(snapshot, id).state, simDelta)])
          /\ call' = [op |-> "tick", simDelta |-> simDelta, snapshot |-> snapshot,
                      before |-> agents]
    /\ advances' = 1
    /\ UNCHANGED <<selectedAgentId, objectives, score, timer, taskHist, burnHist, clock, rng,
                   clockStore, lastSimTime, runs, snapshot>>

\* burns are requested until one has taken effect and no agent was propagated yet
BurnBeforeTick ==
    /\ advances = 0
    /\ \A i \in 1..Len(spent) : spent[i] = 0
    /\ ApplyDeltaVToAgent

SnapshotNext == Render \/ BurnBeforeTick \/ SnapshotTick

SnapshotSpec == SnapshotInit /\ [][SnapshotNext]_vars

\* C28: after a frame's batch, an agent whose dvRemaining is below what the
\* frame's snapshot held (a burn committed after the snapshot was taken) has the
\* state the burn left, propagated: the burn's velocity change is not lost.
C28_BurnSurvivesBatch ==
    call.op = "tick" =>
        \A i \in 1..Len(agents) :
            agents[i].dvRemaining < call.snapshot[i].dvRemaining
                => agents[i].state = propagateKepler(call.before[i].state, call.simDelta)

(***************************************************************************)
(* Specification SteeringSpec: computeObjectiveSteering as a function of   *)
(* its arguments.  Agent a1 is at rest 1000 m, 2000 m or 2600 m out, a2    *)
(* 1000 m out; the scenario's objectives are open or one of them is        *)
(* completed, the relay is unassigned or assigned to a1 or a2 and the      *)
(* zone lists nobody, a1, or a2 and a1.  The function is called for an     *)
(* agent with the objectives in any order of the array.                    *)
(***************************************************************************)
SteeringObjectives ==
    {[ScenarioObjectives([i \in ObjIdx |-> i \in done]) EXCEPT
         ![2].assignedAgentId = relayAgent,
         ![3].assignedAgentIds = zoneAgents] :
       done \in {{}, {1}, {2}, {3}},
       relayAgent \in {NULL, "a1", "a2"},
       zoneAgents \in {<<>>, <<"a1">>, <<"a2", "a1">>}}

SteeringInit ==
    /\ \E position \in {<<1000, 0, 0>>, <<2000, 0, 0>>, <<2600, 0, 0>>} :
          agents = <<MkAgent("a1", position, Slow), MkAgent("a2", <<1000, 0, 0>>, Slow)>>
    /\ selectedAgentId = NULL /\ budget0 = <<>> /\ spent = <<>>
    /\ timer = NoTimer /\ score = 0
    /\ objectives \in SteeringObjectives
    /\ objectives0 = objectives
    /\ emitted = <<>> /\ holdT0 = <<>> /\ exitAt = <<>>
    /\ NoClock
    /\ call = [op |-> "init"]

\* computeObjectiveSteering(agent, objs), objs the objectives in some order; the
\* direction returned points at the target recorded here
ComputeObjectiveSteering ==
    \E i \in 1..Len(agents), order \in Permutations(ObjIdx) :
        /\ call' = [op |-> "computeObjectiveSteering", agent |-> agents[i],
                    objectives |-> [k \in ObjIdx |-> objectives[order[k]]],
                    target |-> targetObjective(agents[i],
                                               [k \in ObjIdx |-> objectives[order[k]]])]
        /\ UNCHANGED <<storeVars, objectives, clockVars, taskHist, burnHist>>

SteeringSpec == SteeringInit /\ [][ComputeObjectiveSteering]_vars

\* the uncompleted objectives are at pairwise different distances from the agent
DistinctDistances(agent, objs) ==
    \A j, k \in 1..Len(objs) :
        (j # k /\ ~objs[j].completed /\ ~objs[k].completed)
            => distance(agent.state.position, objs[j].position)
                 # distance(agent.state.position, objs[k].position)

\* C29: with the uncompleted objectives at pairwise different distances from the
\* agent, computeObjectiveSteering on a reordered objectives array chooses the
\* target it chooses on the array in its original order.
C29_TargetIndependentOfOrder ==
    (call.op = "computeObjectiveSteering" /\ DistinctDistances(call.agent, objectives))
        => call.target = targetObjective(call.agent, objectives)

(***************************************************************************)
(* Specification SelectionSpec: the agent store under its actions.  The    *)
(* arrays handed to setAgents are the ones scenarioToAgents builds (a1     *)
(* alone or a1 and a2, selected and hovered false, 10 m/s of delta-v);     *)
(* updateAgent and updateAgentsBatch write a state 2000 m out.  The        *)
(* store's hoveredAgentId is written by hoverAgent only and read by no     *)
(* action; the model keeps the agents' hovered flags.                      *)
(***************************************************************************)
LoadedAgents ==
    {[i \in 1..Len(ags) |->
         [ags[i] EXCEPT !.dvRemaining = Min(10, MaxBudget)] @@ [hovered |-> FALSE]] :
       ags \in BurnAgents}

SelectionInit ==
    /\ agents \in LoadedAgents
    /\ budget0 = [i \in 1..Len(agents) |-> agents[i].dvRemaining]
    /\ spent = [i \in 1..Len(agents) |-> 0]
    /\ selectedAgentId = NULL
    /\ call = [op |-> "setAgents"]
    /\ NoClock
    /\ NoTasks

\* agent store setAgents(agents), as loadScenario calls it
SetAgents ==
    \E ags \in LoadedAgents :
        /\ agents' = ags
        /\ budget0' = [i \in 1..Len(ags) |-> ags[i].dvRemaining]
        /\ spent' = [i \in 1..Len(ags) |-> 0]
        /\ call' = [op |-> "setAgents"]
        /\ UNCHANGED <<selectedAgentId, objectives, score, timer, clockVars, taskHist>>

\* agent store hoverAgent(id), id an agent's id or null
HoverAgent ==
    \E id \in AgentIds \cup {NULL} :
        /\ agents' = [i \in 1..Len(agents) |->
                         [agents[i] EXCEPT !.hovered = (agents[i].id = id)]]
        /\ call' = [op |-> "hoverAgent", id |-> id]
        /\ UNCHANGED <<selectedAgentId, objectives, score, timer, clockVars, taskHist,
                       burnHist>>

\* agent store updateAgent(id, state)
UpdateAgent ==
    \E id \in AgentIds, state \in {[position |-> <<2000, 0, 0>>, velocity |-> Slow]} :
        /\ agents' = [i \in 1..Len(agents) |->
                         IF agents[i].id = id THEN [agents[i] EXCEPT !.state = state]
                         ELSE agents[i]]
        /\ call' = [op |-> "updateAgent", id |-> id]
        /\ UNCHANGED <<selectedAgentId, objectives, score, timer, clockVars, taskHist,
                       burnHist>>

\* agent store updateAgentsBatch(updates)
UpdateAgentsBatch ==
    \E ids \in SUBSET AgentIds, state \in {[position |-> <<2000, 0, 0>>, velocity |-> Slow]} :
        /\ agents' = updateAgentsBatch(agents, [id \in ids |-> state])
        /\ call' = [op |-> "updateAgentsBatch", ids |-> ids]
        /\ UNCHANGED <<selectedAgentId, objectives, score, timer, clockVars, taskHist,
                       burnHist>>

SelectionNext ==
    \/ SetAgents
    \/ SelectAgent
    \/ ClearSelection
    \/ HoverAgent
    \/ UpdateAgent
    \/ UpdateAgentsBatch
    \/ BurnBeforeTick

SelectionSpec == SelectionInit /\ [][SelectionNext]_vars

\* C30: at most one agent of the store has selected = TRUE, and an agent has
\* selected = TRUE exactly when its id is selectedAgentId.
C30_SelectionConsistent ==
    /\ Cardinality({i \in 1..Len(agents) : agents[i].selected}) <= 1
    /\ \A i \in 1..Len(agents) : agents[i].selected <=> agents[i].id = selectedAgentId
====
